---- MODULE Spec2Model ----
(***************************************************************************)
(* State-machine model of the Fuzzy-Matcher engine: match_tables (the      *)
(* two-phase, multi-pass pipeline), match_with_recordlinkage, and the      *)
(* scoring / normalisation helpers they call.                              *)
(*                                                                         *)
(* Strings are sequences of one-character strings.  Results of the         *)
(* third-party libraries (rapidfuzz ratios, sentence-transformers cosine,  *)
(* metaphone codes, recordlinkage feature vectors) are inputs of the       *)
(* model: they are drawn from small sets where the code calls the library. *)
(***************************************************************************)
EXTENDS Integers, Sequences, FiniteSets, TLC

(***************************************************************************)
(* Bounds of the model.                                                    *)
(***************************************************************************)
MaxRows1 == 2       \* rows of the primary table t1
MaxRows2 == 2       \* rows of the secondary table t2
MaxDay   == 1       \* calendar days are 0..MaxDay
MaxTol   == 1       \* cfg.date_tolerance_days ranges over 0..MaxTol

(***************************************************************************)
(* constants.py                                                            *)
(***************************************************************************)
EXACT_DATE_NAME_BOOST == 3
EXACT_DATE_COMBINED_BOOST == 10
CLOSE_DATE_NAME_BOOST == 1
CLOSE_DATE_COMBINED_BOOST == 5
PHONETIC_BOOST == 15
DATE_TOLERANCE_THRESHOLD_REDUCTION == 8
CONFIDENCE_HIGH_THRESHOLD == 90
CONFIDENCE_MEDIUM_THRESHOLD == 80
CONFIDENCE_LOW_THRESHOLD == 70
MULTI_PASS_MEDIUM_THRESHOLD_REDUCTION == 10
MULTI_PASS_LENIENT_THRESHOLD_REDUCTION == 15
PROGRESS_UPDATE_INTERVAL_PERCENT == 1

\* Python None in an integer-valued position (a date, a score, a bucket)
NoneInt == 0 - 1

Min(a, b) == IF a <= b THEN a ELSE b
Max(a, b) == IF a >= b THEN a ELSE b
Abs(x) == IF x < 0 THEN 0 - x ELSE x

(***************************************************************************)
(* int(round(n / d)) for a non-negative rational n/d.  Python rounds a     *)
(* float half to even; the float sum of the weighted terms can land on     *)
(* either side of an exact tie, so at a tie both neighbours are possible.  *)
(***************************************************************************)
RoundHalfEven(n, d) ==
    LET q == n \div d
        r == n % d
    IN  IF 2 * r < d THEN q
        ELSE IF 2 * r > d THEN q + 1
        ELSE IF q % 2 = 0 THEN q ELSE q + 1

RoundFloat(n, d) ==
    LET q == n \div d
        r == n % d
    IN  IF 2 * r < d THEN {q}
        ELSE IF 2 * r > d THEN {q + 1}
        ELSE {q, q + 1}

(***************************************************************************)
(* name_normalizer.py                                                      *)
(***************************************************************************)
Letters == {"a", "b", "c", "d", "e", "f", "g", "h", "i", "j", "k", "l", "m",
            "n", "o", "p", "q", "r", "s", "t", "u", "v", "w", "x", "y", "z"}
UpperOf == [c \in Letters |->
              CASE c = "a" -> "A" [] c = "b" -> "B" [] c = "c" -> "C"
                [] c = "d" -> "D" [] c = "e" -> "E" [] c = "f" -> "F"
                [] c = "g" -> "G" [] c = "h" -> "H" [] c = "i" -> "I"
                [] c = "j" -> "J" [] c = "k" -> "K" [] c = "l" -> "L"
                [] c = "m" -> "M" [] c = "n" -> "N" [] c = "o" -> "O"
                [] c = "p" -> "P" [] c = "q" -> "Q" [] c = "r" -> "R"
                [] c = "s" -> "S" [] c = "t" -> "T" [] c = "u" -> "U"
                [] c = "v" -> "V" [] c = "w" -> "W" [] c = "x" -> "X"
                [] c = "y" -> "Y" [] c = "z" -> "Z"]
Uppers == {UpperOf[c] : c \in Letters}
\* accented letters of the model and their NFD base letter
Accented == {"é", "É"}
Punct == {".", ",", ";", ":", "!", "?", "-", "_", "/", "\\"}

\* str.upper / str.lower on one character
Upper(ch) == IF ch \in Letters THEN UpperOf[ch]
             ELSE IF ch = "é" THEN "É" ELSE ch
Lower(ch) == IF ch \in Uppers THEN CHOOSE c \in Letters : UpperOf[c] = ch
             ELSE IF ch = "É" THEN "é" ELSE ch
IsAlpha(ch) == ch \in Letters \cup Uppers \cup Accented

MapSeq(F(_), s) == [i \in 1..Len(s) |-> F(s[i])]

\* str.strip(): drop leading and trailing spaces
RECURSIVE LStrip(_)
LStrip(s) == IF s # <<>> /\ Head(s) = " " THEN LStrip(Tail(s)) ELSE s
RECURSIVE RStrip(_)
RStrip(s) == IF s # <<>> /\ s[Len(s)] = " "
             THEN RStrip(SubSeq(s, 1, Len(s) - 1)) ELSE s
Strip(s) == RStrip(LStrip(s))

\* NFD, drop combining marks (category Mn), NFC
strip_accents(text) ==
    MapSeq(LAMBDA ch : IF ch = "é" THEN "e" ELSE IF ch = "É" THEN "E" ELSE ch,
           text)

\* re.sub(r"(.)\1{2,}", r"\1\1", text): a run of 3 or more of one
\* character shrinks to 2
RECURSIVE squeeze_repeats(_)
squeeze_repeats(text) ==
    IF Len(text) >= 3 /\ text[1] = text[2] /\ text[2] = text[3]
    THEN squeeze_repeats(Tail(text))
    ELSE IF text = <<>> THEN <<>>
    ELSE <<Head(text)>> \o squeeze_repeats(Tail(text))

\* re.sub(chars+, " ", text) for a character class
RECURSIVE SubRuns(_, _)
SubRuns(text, class) ==
    IF text = <<>> THEN <<>>
    ELSE IF Head(text) \in class
         THEN IF Len(text) >= 2 /\ text[2] \in class
              THEN SubRuns(Tail(text), class)
              ELSE <<" ">> \o SubRuns(Tail(text), class)
         ELSE <<Head(text)>> \o SubRuns(Tail(text), class)

basic_clean(text) ==
    LET t1 == MapSeq(Lower, Strip(text))
        t2 == SubRuns(t1, Punct)
        t3 == SubRuns(t2, {" "})
    IN  Strip(t3)

\* str.split(): the maximal runs of non-space characters
RECURSIVE Split(_)
RECURSIVE TakeWord(_)
TakeWord(s) == IF s = <<>> \/ Head(s) = " " THEN <<>>
               ELSE <<Head(s)>> \o TakeWord(Tail(s))
Split(s) ==
    LET t == LStrip(s)
        w == TakeWord(t)
    IN  IF t = <<>> THEN <<>>
        ELSE <<w>> \o Split(SubSeq(t, Len(w) + 1, Len(t)))

\* " ".join(parts)
RECURSIVE Join(_)
Join(parts) == IF parts = <<>> THEN <<>>
               ELSE IF Len(parts) = 1 THEN parts[1]
               ELSE parts[1] \o <<" ">> \o Join(Tail(parts))

COMPOUND_SURNAME_PREFIXES ==
    { <<"v", "a", "n">>, <<"d", "e", "r">>, <<"d", "e">>, <<"l", "a">>,
      <<"d", "e", "l">>, <<"d", "i">>, <<"d", "a">>, <<"d", "o", "s">>,
      <<"e", "l">>, <<"a", "l">>, <<"a", "b", "u">> }

\* a faulty merge: the prefix and the following word run together
RECURSIVE MergeCompound_Concat(_, _)
MergeCompound_Concat(parts, i) ==
    IF i > Len(parts) THEN <<>>
    ELSE IF parts[i] \in COMPOUND_SURNAME_PREFIXES /\ i + 1 <= Len(parts)
         THEN <<parts[i] \o parts[i + 1]>> \o MergeCompound_Concat(parts, i + 2)
         ELSE <<parts[i]>> \o MergeCompound_Concat(parts, i + 1)

\* the while loop of normalize_component: new_parts from parts[i..]
RECURSIVE MergeCompound(_, _)
MergeCompound(parts, i) ==
    IF i > Len(parts) THEN <<>>
    ELSE IF parts[i] \in COMPOUND_SURNAME_PREFIXES /\ i + 1 <= Len(parts)
         THEN <<parts[i] \o <<" ">> \o parts[i + 1]>> \o MergeCompound(parts, i + 2)
         ELSE <<parts[i]>> \o MergeCompound(parts, i + 1)

\* lines 56-70 of normalize_component: t is the cleaned text
CompoundSurnames(t, enable_compound) ==
    IF t = <<>> THEN <<>>
    ELSE IF enable_compound /\ Len(Split(t)) > 1
         THEN Join(MergeCompound(Split(t), 1))
         ELSE t

normalize_component(text, enable_compound) ==
    IF text = <<>> THEN <<>>
    ELSE CompoundSurnames(basic_clean(squeeze_repeats(strip_accents(Strip(text)))),
                          enable_compound)

FIRST_NAME_VARIANTS(f) ==
    CASE f = <<"m", "o">> -> <<"m", "o", "h", "a", "m", "e", "d">>
      [] f = <<"m", "o", "h", "a", "m", "m", "e", "d">> -> <<"m", "o", "h", "a", "m", "e", "d">>
      [] f = <<"m", "u", "h", "a", "m", "m", "a", "d">> -> <<"m", "o", "h", "a", "m", "e", "d">>
      [] f = <<"m", "u", "h", "a", "m", "m", "e", "d">> -> <<"m", "o", "h", "a", "m", "e", "d">>
      [] f = <<"m", "o", "h", "a", "m", "m", "a", "d">> -> <<"m", "o", "h", "a", "m", "e", "d">>
      [] f = <<"a", "l", "e", "x">> -> <<"a", "l", "e", "x", "a", "n", "d", "e", "r">>
      [] f = <<"t", "o", "n", "y">> -> <<"a", "n", "t", "h", "o", "n", "y">>
      [] f = <<"m", "i", "k", "e">> -> <<"m", "i", "c", "h", "a", "e", "l">>
      [] f = <<"m", "i", "k", "e", "y">> -> <<"m", "i", "c", "h", "a", "e", "l">>
      [] f = <<"t", "o", "m">> -> <<"t", "h", "o", "m", "a", "s">>
      [] f = <<"j", "o", "h", "n", "n", "y">> -> <<"j", "o", "h", "n">>
      [] f = <<"j", "o", "n">> -> <<"j", "o", "h", "n">>
      [] OTHER -> f

canonical_first_name(first) ==
    IF first = <<>> THEN <<>>
    ELSE FIRST_NAME_VARIANTS(basic_clean(strip_accents(first)))

\* code(ch) of soundex_code: the digit of a letter, "" when unmapped
SoundexDigit(ch) ==
    IF ch \in {"b", "f", "p", "v"} THEN "1"
    ELSE IF ch \in {"c", "g", "j", "k", "q", "s", "x", "z"} THEN "2"
    ELSE IF ch \in {"d", "t"} THEN "3"
    ELSE IF ch = "l" THEN "4"
    ELSE IF ch \in {"m", "n"} THEN "5"
    ELSE IF ch = "r" THEN "6"
    ELSE ""

\* the filtered list: drop "" and a digit equal to the previous entry
RECURSIVE SoundexFilter(_, _)
SoundexFilter(digits, prev) ==
    IF digits = <<>> THEN <<>>
    ELSE LET d == Head(digits)
         IN  (IF d # "" /\ d # prev THEN <<d>> ELSE <<>>)
             \o SoundexFilter(Tail(digits), d)

SelectAlpha(s) == SelectSeq(s, IsAlpha)

\* a faulty code: the first letter is left out
SoundexOf_DigitsOnly(n) ==
    IF n = <<>> THEN <<>>
    ELSE SubSeq(SoundexFilter(MapSeq(SoundexDigit, SelectAlpha(Tail(n))), "")
                \o <<"0", "0", "0", "0">>, 1, 4)

\* lines 88-115 of soundex_code: n is the cleaned name
SoundexOf(n) ==
    IF n = <<>> THEN <<>>
    ELSE SubSeq(<<Upper(n[1])>>
                \o SoundexFilter(MapSeq(SoundexDigit, SelectAlpha(Tail(n))), "")
                \o <<"0", "0", "0">>, 1, 4)

soundex_code(name) ==
    IF name = <<>> THEN <<>>
    ELSE SoundexOf(basic_clean(strip_accents(name)))

(***************************************************************************)
(* itr_categorizer.py.  A cell is [kind, half]: kind "none" (None),        *)
(* "blank" (whitespace only), "text" (float() raises ValueError), "nan"    *)
(* (float() gives NaN, which fails every comparison) or "num" (float()     *)
(* gives half/2).                                                          *)
(***************************************************************************)
\* a faulty bucketing: 7 itself is left without a bucket
categorize_itr_BelowSeven(value) ==
    IF value.kind # "num" THEN NoneInt
    ELSE IF value.half < 2 * 7 THEN 0
    ELSE IF value.half = 2 * 8 THEN 8
    ELSE IF value.half >= 2 * 9 THEN 10
    ELSE NoneInt

categorize_itr(value) ==
    IF value.kind = "none" THEN NoneInt
    ELSE IF value.kind = "blank" THEN NoneInt
    ELSE IF value.kind = "text" THEN NoneInt
    ELSE IF value.kind = "nan" THEN NoneInt
    ELSE IF value.half <= 2 * 7 THEN 0
    ELSE IF value.half = 2 * 8 THEN 8
    ELSE IF value.half >= 2 * 9 THEN 10
    ELSE NoneInt

(***************************************************************************)
(* date_normalizer.py.  A result is [exc, val]: exc is "none" or the type  *)
(* of the exception that leaves the function, val is <<>> for None or the  *)
(* date <<year, month, day>>.                                              *)
(*                                                                         *)
(* What pandas and strptime make of a text is an input: lib.s1, lib.s2 and *)
(* lib.s4 are the outcomes of the three pd.to_datetime calls ("raise",     *)
(* "Timestamp", "datetime" or "other"), lib.hit is the first format of     *)
(* common_formats that strptime accepts (0: none).  m is what the regular  *)
(* expressions of _regex_date_parse make of the text: the pattern that     *)
(* matches (0: none) and the integers of its three groups.                 *)
(***************************************************************************)
Nothing == [exc |-> "none", val |-> <<>>]
Some(d) == [exc |-> "none", val |-> d]
Raise(type) == [exc |-> type, val |-> <<>>]

\* the date pandas or strptime reads from a text it accepts, and the date
\* of an Excel serial number
LibDate == <<2024, 1, 15>>
ExcelDate == <<1900, 1, 1>>

\* r, unless r is None: then what follows r in the code
OrElse(r, next) == IF r.exc # "none" \/ r.val # <<>> THEN r ELSE next

IsLeap(year) == year % 4 = 0 /\ (year % 100 # 0 \/ year % 400 = 0)
DaysInMonth(year, month) ==
    IF month = 2 THEN (IF IsLeap(year) THEN 29 ELSE 28)
    ELSE IF month \in {4, 6, 9, 11} THEN 30 ELSE 31

\* datetime.datetime(year, month, day)
datetime(year, month, day) ==
    IF year \in 1..9999 /\ month \in 1..12 /\ day \in 1..DaysInMonth(year, month)
    THEN Some(<<year, month, day>>)
    ELSE Raise("ValueError")

\* a faulty try block: the ValueError of datetime(...) is not caught
TryDate_NoExcept(year, month, day) ==
    IF 1 <= month /\ month <= 12 /\ 1 <= day /\ day <= 31
    THEN datetime(year, month, day)
    ELSE Nothing

\* lines 115-120, 130-135, 141-145, 151-155: the range test inside
\* try ... except ValueError
TryDate(year, month, day) ==
    IF 1 <= month /\ month <= 12 /\ 1 <= day /\ day <= 31
    THEN IF datetime(year, month, day).exc = "ValueError" THEN Nothing
         ELSE datetime(year, month, day)
    ELSE Nothing

\* lines 114 and 129: for day, month in [(d1, d2), (d2, d1)]
TryBoth(year, d1, d2) == OrElse(TryDate(year, d2, d1), TryDate(year, d1, d2))

\* line 128
TwoDigitYear(yy) == IF yy <= 30 THEN 2000 + yy ELSE 1900 + yy

\* a text the anchored pattern 3 matches is matched by the search of
\* pattern 4 too, with the same groups
_regex_date_parse(m) ==
    OrElse(IF m.pattern = 1 THEN TryBoth(m.g3, m.g1, m.g2) ELSE Nothing,
     OrElse(IF m.pattern = 2 THEN TryBoth(TwoDigitYear(m.g3), m.g1, m.g2)
            ELSE Nothing,
      OrElse(IF m.pattern = 3 THEN TryDate(m.g1, m.g2, m.g3) ELSE Nothing,
             IF m.pattern \in {3, 4} THEN TryDate(m.g1, m.g2, m.g3)
             ELSE Nothing)))

\* lines 93-99: hit is the first format strptime accepts
_try_common_formats(hit) ==
    IF hit = 0 THEN Raise("ValueError") ELSE Some(LibDate)

\* a pd.to_datetime call of lines 40, 42, 46
to_datetime(outcome) ==
    IF outcome = "raise" THEN Raise("Exception") ELSE Some(LibDate)

\* lines 50-57: one strategy inside try ... except Exception; a result that
\* is neither a Timestamp nor a datetime is passed over
Strategy(r, outcome) ==
    IF r.exc # "none" THEN Nothing
    ELSE IF outcome \in {"Timestamp", "datetime"} THEN r
    ELSE Nothing

NullSentinels == { <<"n", "a", "n">>, <<"n", "o", "n", "e">>,
                   <<"n", "u", "l", "l">>, <<>> }

\* lines 38-64: s is the stripped text
ParseText(lib, m) ==
    OrElse(Strategy(to_datetime(lib.s1), lib.s1),
     OrElse(Strategy(to_datetime(lib.s2), lib.s2),
      OrElse(Strategy(_try_common_formats(lib.hit), "datetime"),
       OrElse(Strategy(to_datetime(lib.s4), lib.s4),
              _regex_date_parse(m)))))

\* value is [kind, text, date, in_range, excel_raises, lib, m]: kind is
\* "none", "nan" (a float NaN), "datetime", "date", "number" (an int or a
\* float) or "str"; text is str(value)
parse_date_safe(value) ==
    IF value.kind \in {"none", "nan"} THEN Nothing
    ELSE IF value.kind \in {"datetime", "date"} THEN Some(value.date)
    ELSE IF Strip(value.text) = <<>>
            \/ MapSeq(Lower, Strip(value.text)) \in NullSentinels THEN Nothing
    ELSE IF value.kind = "number" /\ value.in_range /\ ~value.excel_raises
         THEN Some(ExcelDate)
    ELSE ParseText(value.lib, value.m)

(***************************************************************************)
(* parse_date_safe on a text with a two-digit year: t is the text          *)
(* "<d1><sep><d2><sep><yy>", d1 and d2 of one or two digits, yy of two,    *)
(* sep one of "/", "-", "." or "/-" (a slash, then a dash).  lib.s1,       *)
(* lib.s2 and lib.s4 are the outcomes of the pd.to_datetime calls and      *)
(* lib.century the century pandas gives the year.                          *)
(***************************************************************************)
\* the year strptime reads from %y
StrptimeYear(yy) == IF yy <= 68 THEN 2000 + yy ELSE 1900 + yy

\* line 95 with one of the formats of lines 81-86: strptime matches %d
\* against 1..31 and %m against 1..12, then builds the datetime
strptime(day, month, yy) ==
    IF day \in 1..31 /\ month \in 1..12
    THEN datetime(StrptimeYear(yy), month, day)
    ELSE Raise("ValueError")

\* lines 93-99 on t: the formats with a four-digit year do not match; of
\* those of lines 81-86 the day-first one of the separator comes first
TryCommonFormatsShort(t) ==
    IF t.sep \notin {"/", "-", "."} THEN Raise("ValueError")
    ELSE IF strptime(t.d1, t.d2, t.yy).exc = "none" THEN strptime(t.d1, t.d2, t.yy)
    ELSE IF strptime(t.d2, t.d1, t.yy).exc = "none" THEN strptime(t.d2, t.d1, t.yy)
    ELSE Raise("ValueError")

\* a pd.to_datetime call of lines 40, 42, 46 on t
ToDatetimeShort(outcome, t, lib) ==
    IF outcome = "raise" THEN Raise("Exception")
    ELSE Some(<<lib.century + t.yy, 1, 15>>)

\* lines 109, 123, 138, 148 on t: only pattern 2 matches, and not with dots
RegexMatchShort(t) ==
    IF t.sep \in {"/", "-", "/-"}
    THEN [pattern |-> 2, g1 |-> t.d1, g2 |-> t.d2, g3 |-> t.yy]
    ELSE [pattern |-> 0, g1 |-> 0, g2 |-> 0, g3 |-> 0]

\* lines 38-64 on t
ParseShortYear(t, lib) ==
    OrElse(Strategy(ToDatetimeShort(lib.s1, t, lib), lib.s1),
     OrElse(Strategy(ToDatetimeShort(lib.s2, t, lib), lib.s2),
      OrElse(Strategy(TryCommonFormatsShort(t), "datetime"),
       OrElse(Strategy(ToDatetimeShort(lib.s4, t, lib), lib.s4),
              _regex_date_parse(RegexMatchShort(t))))))

(***************************************************************************)
(* matcher.py: the scoring engine.                                         *)
(*                                                                         *)
(* lib holds what the libraries return for the pair (a, b):                *)
(*   partial, jw, wratio, token_sort : fuzz.partial_ratio, JaroWinkler     *)
(*       similarity as int(round(100 * s)), fuzz.WRatio,                   *)
(*       fuzz.token_sort_ratio;                                            *)
(*   sem_raises, sem : model.encode / cosine_similarity raising, else      *)
(*       int(round(100 * similarity));                                     *)
(*   dm_raises, dm1, dm2 : doublemetaphone raising, else the <<primary,    *)
(*       secondary>> codes of a and of b ("" is the empty code).           *)
(* env holds the import flags and whether the semantic model loads.        *)
(***************************************************************************)
_base_fuzzy(a, b, algorithm, lib) ==
    IF a = <<>> /\ b = <<>> THEN 100
    ELSE IF a = <<>> \/ b = <<>> THEN 0
    ELSE IF algorithm = "Partial Ratio" THEN lib.partial
    ELSE IF algorithm = "Jaro-Winkler" THEN lib.jw
    ELSE lib.wratio

_enhanced_fuzzy(a, b, lib) ==
    IF a = <<>> /\ b = <<>> THEN 100
    ELSE IF a = <<>> \/ b = <<>> THEN 0
    ELSE RoundHalfEven(6 * lib.token_sort + 4 * lib.partial, 10)

\* the set of values int(round(...)) can take (see RoundFloat)
_ensemble_score(a, b, lib) ==
    IF a = <<>> /\ b = <<>> THEN {100}
    ELSE IF a = <<>> \/ b = <<>> THEN {0}
    ELSE RoundFloat(35 * lib.jw + 30 * lib.wratio
                    + 20 * lib.token_sort + 15 * lib.partial, 100)

_semantic_score(a, b, env, lib) ==
    IF ~env.HAS_SEMANTIC THEN lib.jw
    ELSE IF ~env.model_loads THEN lib.jw
    ELSE IF lib.sem_raises THEN lib.jw
    ELSE lib.sem

_double_metaphone_score(a, b, env, lib) ==
    IF ~env.HAS_METAPHONE
    THEN IF soundex_code(a) # <<>> /\ soundex_code(a) = soundex_code(b)
         THEN 100 ELSE 0
    ELSE IF lib.dm_raises THEN lib.jw
    ELSE IF lib.dm1[1] # "" /\ lib.dm2[1] # "" /\ lib.dm1[1] = lib.dm2[1] THEN 100
    ELSE IF lib.dm1[2] # "" /\ lib.dm2[2] # "" /\ lib.dm1[2] = lib.dm2[2] THEN 90
    ELSE IF \/ (lib.dm1[1] # "" /\ lib.dm2[2] # "" /\ lib.dm1[1] = lib.dm2[2])
            \/ (lib.dm1[2] # "" /\ lib.dm2[1] # "" /\ lib.dm1[1] = lib.dm2[1])
         THEN 85
    ELSE lib.jw

\* the set of values _fuzzy_score(a, b, cfg) can return
_fuzzy_score(a, b, cfg, env, lib) ==
    IF cfg.enable_enhanced_fuzzy /\ cfg.algorithm # "Ensemble"
    THEN {_enhanced_fuzzy(a, b, lib)}
    ELSE IF cfg.algorithm = "Ensemble" THEN _ensemble_score(a, b, lib)
    ELSE IF cfg.algorithm = "Semantic Matching" THEN {_semantic_score(a, b, env, lib)}
    ELSE IF cfg.algorithm = "Double Metaphone" THEN {_double_metaphone_score(a, b, env, lib)}
    ELSE IF cfg.algorithm = "Record Linkage" THEN {lib.jw}
    ELSE {_base_fuzzy(a, b, cfg.algorithm, lib)}

_prepare_name(last, first, cfg) ==
    LET last_norm == IF cfg.enable_pre_norm
                     THEN normalize_component(last, cfg.enable_double_surname)
                     ELSE MapSeq(Lower, Strip(last))
        first_norm_raw == IF cfg.enable_pre_norm
                          THEN normalize_component(first, FALSE)
                          ELSE MapSeq(Lower, Strip(first))
        first_norm == IF cfg.enable_variants
                      THEN canonical_first_name(first_norm_raw)
                      ELSE first_norm_raw
    IN  <<last_norm, first_norm>>

\* the NormalizedRow of lines 286-301; a soundex of None is the empty
\* sequence (the code only tests it for truth)
NormalizedRow(last_norm, first_norm, cfg) ==
    [ last_norm |-> last_norm,
      first_norm |-> first_norm,
      last_len |-> Len(last_norm),
      first_len |-> Len(first_norm),
      last_first_char |-> IF last_norm # <<>> THEN last_norm[1] ELSE "",
      first_first_char |-> IF first_norm # <<>> THEN first_norm[1] ELSE "",
      last_soundex |-> IF cfg.enable_phonetic /\ last_norm # <<>>
                       THEN soundex_code(last_norm) ELSE <<>>,
      first_soundex |-> IF cfg.enable_phonetic /\ first_norm # <<>>
                        THEN soundex_code(first_norm) ELSE <<>> ]

\* one entry of _precompute_normalized_data (lines 265-303)
_precompute_normalized_data(last_raw, first_raw, cfg) ==
    NormalizedRow(_prepare_name(last_raw, first_raw, cfg)[1],
                  _prepare_name(last_raw, first_raw, cfg)[2], cfg)

Max3(a, b, c) == Max(a, Max(b, c))

\* |la - lb| / max(la, lb, 1) > MAX_NAME_LENGTH_DIFF_RATIO (= 0.5)
LenDiffTooBig(la, lb) == 2 * Abs(la - lb) > Max3(la, lb, 1)

\* a faulty filter: equal phonetic codes are not asked for
_quick_filter_NoFirstChar(t1_norm, t2_norm, cfg) ==
    IF t1_norm.last_norm = <<>> /\ t1_norm.first_norm = <<>> THEN FALSE
    ELSE IF t2_norm.last_norm = <<>> /\ t2_norm.first_norm = <<>> THEN FALSE
    ELSE IF cfg.enable_safe_missing
            /\ (t1_norm.last_norm = <<>> \/ t2_norm.last_norm = <<>>) THEN FALSE
    ELSE IF t1_norm.last_norm # <<>> /\ t2_norm.last_norm # <<>>
            /\ LenDiffTooBig(t1_norm.last_len, t2_norm.last_len) THEN FALSE
    ELSE IF t1_norm.first_norm # <<>> /\ t2_norm.first_norm # <<>>
            /\ LenDiffTooBig(t1_norm.first_len, t2_norm.first_len) THEN FALSE
    ELSE IF t1_norm.last_norm # <<>> /\ t2_norm.last_norm # <<>>
            /\ t1_norm.last_first_char # t2_norm.last_first_char
         THEN cfg.enable_phonetic
    ELSE TRUE

_quick_filter(t1_norm, t2_norm, cfg) ==
    IF t1_norm.last_norm = <<>> /\ t1_norm.first_norm = <<>> THEN FALSE
    ELSE IF t2_norm.last_norm = <<>> /\ t2_norm.first_norm = <<>> THEN FALSE
    ELSE IF cfg.enable_safe_missing
            /\ (t1_norm.last_norm = <<>> \/ t2_norm.last_norm = <<>>) THEN FALSE
    ELSE IF t1_norm.last_norm # <<>> /\ t2_norm.last_norm # <<>>
            /\ LenDiffTooBig(t1_norm.last_len, t2_norm.last_len) THEN FALSE
    ELSE IF t1_norm.first_norm # <<>> /\ t2_norm.first_norm # <<>>
            /\ LenDiffTooBig(t1_norm.first_len, t2_norm.first_len) THEN FALSE
    ELSE IF t1_norm.last_norm # <<>> /\ t2_norm.last_norm # <<>>
            /\ t1_norm.last_first_char # "" /\ t2_norm.last_first_char # ""
            /\ t1_norm.last_first_char # t2_norm.last_first_char
         THEN IF cfg.enable_phonetic /\ t1_norm.last_soundex # <<>>
                 /\ t2_norm.last_soundex # <<>>
              THEN t1_norm.last_soundex = t2_norm.last_soundex
              ELSE FALSE
    ELSE TRUE

\* the name scores after the date-proximity boost (lines 369-376)
DateNameBoost(score, date_diff, cfg) ==
    IF date_diff = 0 THEN Min(100, score + EXACT_DATE_NAME_BOOST)
    ELSE IF date_diff <= cfg.date_tolerance_days
         THEN Min(100, score + CLOSE_DATE_NAME_BOOST)
    ELSE score

\* the values of combined at line 405 (adaptive weighting); 0.6 and 0.7
\* are compared as the rationals 3/5 and 7/10
WeightedCombined(t1_norm, t2_norm, last_score, first_score) ==
    LET lastl == t1_norm.last_len + t2_norm.last_len
        firstl == t1_norm.first_len + t2_norm.first_len
        total_len == lastl + firstl
    IN  IF total_len > 0 /\ 5 * lastl > 3 * total_len
        THEN IF 10 * lastl > 7 * total_len
             THEN RoundFloat(7 * last_score + 3 * first_score, 10)
             ELSE RoundFloat(last_score * lastl + first_score * firstl, total_len)
        ELSE IF total_len > 0 /\ 5 * firstl > 3 * total_len
        THEN IF 10 * firstl > 7 * total_len
             THEN RoundFloat(3 * last_score + 7 * first_score, 10)
             ELSE RoundFloat(last_score * lastl + first_score * firstl, total_len)
        ELSE {RoundHalfEven(last_score + first_score, 2)}

\* a faulty date bonus: the sums are not capped at 100
DateBonus_Uncapped(combined, date_diff, cfg) ==
    IF ~cfg.enable_date_bonus THEN combined
    ELSE IF date_diff = 0 THEN combined + EXACT_DATE_COMBINED_BOOST
    ELSE IF date_diff <= cfg.date_tolerance_days
         THEN combined + CLOSE_DATE_COMBINED_BOOST
    ELSE combined

\* the date bonus (lines 408-412)
DateBonus(combined, date_diff, cfg) ==
    IF ~cfg.enable_date_bonus THEN combined
    ELSE IF date_diff = 0 THEN Min(100, combined + EXACT_DATE_COMBINED_BOOST)
    ELSE IF date_diff <= cfg.date_tolerance_days
         THEN Min(100, combined + CLOSE_DATE_COMBINED_BOOST)
    ELSE combined

\* a faulty phonetic bonus: given at and above the threshold too
PhoneticBonus_AnyScore(combined, t1_norm, t2_norm, cfg) ==
    IF cfg.enable_phonetic
       /\ t1_norm.last_soundex # <<>> /\ t2_norm.last_soundex # <<>>
       /\ t1_norm.last_soundex = t2_norm.last_soundex
    THEN Min(100, combined + PHONETIC_BOOST)
    ELSE combined

\* the phonetic bonus (lines 415-417)
PhoneticBonus(combined, t1_norm, t2_norm, cfg) ==
    IF cfg.enable_phonetic /\ combined < cfg.threshold
       /\ t1_norm.last_soundex # <<>> /\ t2_norm.last_soundex # <<>>
       /\ t1_norm.last_soundex = t2_norm.last_soundex
    THEN Min(100, combined + PHONETIC_BOOST)
    ELSE combined

(***************************************************************************)
(* _detailed_scoring: the set of triples <<last_score, first_score,        *)
(* combined>> it can return, given fz_last and fz_first, the values of     *)
(* the two _fuzzy_score calls of line 365 and line 366.  DetailedSteps     *)
(* holds the locals on the way: the name scores of lines 365-366 (last0,   *)
(* first0), those of lines 369-376, and combined at lines 405, 412 and     *)
(* 417 (weighted, dated, combined).                                        *)
(***************************************************************************)
DetailedSteps(t1_norm, t2_norm, date_diff, cfg, fz_last, fz_first) ==
    LET first0 == IF t1_norm.first_norm # <<>> \/ t2_norm.first_norm # <<>>
                  THEN fz_first ELSE 0
        last_score == DateNameBoost(fz_last, date_diff, cfg)
        first_score == DateNameBoost(first0, date_diff, cfg)
        combined0 == IF cfg.enable_safe_missing
                        /\ (t1_norm.first_norm = <<>> \/ t2_norm.first_norm = <<>>)
                     THEN {last_score}
                     ELSE WeightedCombined(t1_norm, t2_norm, last_score, first_score)
    IN  { [ last0 |-> fz_last, first0 |-> first0,
            last_score |-> last_score, first_score |-> first_score,
            weighted |-> c, dated |-> DateBonus(c, date_diff, cfg),
            combined |-> PhoneticBonus(DateBonus(c, date_diff, cfg),
                                       t1_norm, t2_norm, cfg) ] :
          c \in combined0 }

_detailed_scoring(t1_norm, t2_norm, date_diff, cfg, fz_last, fz_first) ==
    { <<st.last_score, st.first_score, st.combined>> :
      st \in DetailedSteps(t1_norm, t2_norm, date_diff, cfg, fz_last, fz_first) }

_get_confidence_band(score) ==
    IF score >= CONFIDENCE_HIGH_THRESHOLD THEN "High"
    ELSE IF score >= CONFIDENCE_MEDIUM_THRESHOLD THEN "Medium"
    ELSE IF score >= CONFIDENCE_LOW_THRESHOLD THEN "Low"
    ELSE "Very Low"

\* a faulty classification: the Medium pass uses the lenient reduction
Classify_LenientMedium(combined, date_diff, cfg) ==
    IF cfg.enable_multi_pass
    THEN IF date_diff = 0 /\ combined >= cfg.threshold THEN "High"
         ELSE IF date_diff <= cfg.date_tolerance_days
                 /\ combined >= Max(0, cfg.threshold - MULTI_PASS_LENIENT_THRESHOLD_REDUCTION)
              THEN "Medium"
         ELSE "skip"
    ELSE IF combined < Max(0, cfg.threshold - DATE_TOLERANCE_THRESHOLD_REDUCTION)
         THEN "skip"
         ELSE _get_confidence_band(combined)

\* lines 604-625 of match_tables: the confidence level of a scored
\* candidate, or "skip" where the code continues with the next candidate
Classify(combined, date_diff, cfg) ==
    IF cfg.enable_multi_pass
    THEN IF date_diff = 0 /\ combined >= cfg.threshold THEN "High"
         ELSE IF date_diff <= cfg.date_tolerance_days
                 /\ combined >= Max(0, cfg.threshold - MULTI_PASS_MEDIUM_THRESHOLD_REDUCTION)
              THEN "Medium"
         ELSE IF date_diff <= cfg.date_tolerance_days
                 /\ combined >= Max(0, cfg.threshold - MULTI_PASS_LENIENT_THRESHOLD_REDUCTION)
              THEN "Low"
         ELSE "skip"
    ELSE LET effective_threshold ==
                 IF date_diff <= cfg.date_tolerance_days
                 THEN Max(0, cfg.threshold - DATE_TOLERANCE_THRESHOLD_REDUCTION)
                 ELSE cfg.threshold
         IN  IF combined < effective_threshold THEN "skip"
             ELSE _get_confidence_band(combined)

(***************************************************************************)
(* Tables.  A date cell holds what parse_date_safe makes of it             *)
(* (lines 498-499): NoneInt when it does not parse, else the calendar day. *)
(* Rows are labelled 0..n-1 (the default RangeIndex of the loaders).       *)
(* An optional string cell of an output row is [none, val].                *)
(***************************************************************************)
NoneCell == [none |-> TRUE, val |-> <<>>]
Cell(v) == [none |-> FALSE, val |-> v]

Days == 0..MaxDay
DateCells == {NoneInt} \cup Days

\* raw (last, first) name cells of the primary and the secondary rows
Names1 == { [last |-> <<"L", "e", "e">>, first |-> <<"A", "l">>],
            [last |-> <<"L", "e", "a">>, first |-> <<>>] }
Names2 == { [last |-> <<"l", "e", "e">>, first |-> <<"a", "l">>],
            [last |-> <<"R", "e", "a">>, first |-> <<"A", "l">>] }

\* cells of the intent-score column "ITR" of t1
ItrCells == { [kind |-> "num", half |-> 2 * 9] }

Rows1 == [date : DateCells, name : Names1, itr : ItrCells]
Rows2 == [date : DateCells, name : Names2]

NoRow == [date |-> NoneInt, name |-> [last |-> <<>>, first |-> <<>>],
          itr |-> [kind |-> "none", half |-> 0]]

SeqsUpTo(S, n) == UNION { [1..m -> S] : m \in 0..n }

\* values a rapidfuzz ratio takes on two different non-empty strings
ScoreVals == {0, 60, 66, 100}

\* what the libraries return for the pair (a, b): a ratio of two equal
\* non-empty strings is 100
LibEqual(x) == [partial |-> x, jw |-> x, wratio |-> x, token_sort |-> x,
                sem_raises |-> FALSE, sem |-> x,
                dm_raises |-> FALSE, dm1 |-> <<"", "">>, dm2 |-> <<"", "">>]
LibFor(a, b) == IF a = b /\ a # <<>> THEN {LibEqual(100)}
                ELSE {LibEqual(x) : x \in ScoreVals}

\* the optional imports (matcher.py lines 12-30, record_linkage_matcher.py
\* lines 10-14) and whether SentenceTransformer(...) succeeds (line 175)
DefaultEnv == [HAS_SEMANTIC |-> FALSE, HAS_METAPHONE |-> FALSE,
               HAS_RECORDLINKAGE |-> TRUE, model_loads |-> FALSE]

(***************************************************************************)
(* State.                                                                  *)
(***************************************************************************)
VARIABLES
    pc,                 \* position in match_tables / match_with_recordlinkage
    cfg,                \* MatchConfig
    env,                \* which optional libraries are importable
    t2,                 \* the secondary table
    total,              \* len(t1)
    i1,                 \* label of the primary row of the current iteration
    r1,                 \* the primary row of the current iteration
    candidates,         \* labels of the secondary rows within tolerance
    k,                  \* position of the candidate loop (line 584)
    matching_rows,      \* matches of the current primary row
    last_scored,        \* the candidate the last iteration of line 584 handled
    results,            \* the rows of the output table
    global_seen_pairs,  \* pairs already emitted (show-all mode)
    progress,           \* values handed to progress_cb
    rl_t1,              \* the primary table of match_with_recordlinkage
    rl_features,        \* the comparison vectors of compare.compute
    args,               \* arguments of a call of a scoring function
    ret,                \* what that call returned
    _semantic_model,    \* the module global of matcher.py line 167
    constructions,      \* SentenceTransformer objects constructed so far
    th,                 \* the worker threads inside _semantic_score
    win                 \* the main window and its MatchWorker threads

pipeVars == <<total, i1, r1, candidates, k, matching_rows, last_scored,
              global_seen_pairs>>
rlVars == <<rl_t1, rl_features>>
callVars == <<args, ret>>
semVars == <<_semantic_model, constructions, th>>
vars == <<pc, cfg, env, t2, results, progress, pipeVars, rlVars, callVars,
          semVars, win>>

NoScored == [i2 |-> NoneInt, date_diff |-> 0, passed |-> FALSE,
             combined |-> NoneInt, conf |-> "skip"]
NoCall == [fn |-> "none"]
NoRet == [done |-> FALSE, val |-> <<>>]

\* the configurations of the pipeline runs: the toggles the main window
\* leaves at their defaults are at their defaults
PipelineCfgs ==
    [ algorithm : {"Ensemble"},
      threshold : {12, 85},
      t1_itr : {"ITR"},
      enable_pre_norm : {TRUE},
      enable_enhanced_fuzzy : {TRUE},
      enable_date_bonus : {TRUE},
      enable_phonetic : {FALSE},
      enable_variants : {TRUE},
      enable_double_surname : {TRUE},
      enable_safe_missing : {TRUE},
      show_all_matches : BOOLEAN,
      date_tolerance_days : 0..MaxTol,
      enable_multi_pass : BOOLEAN ]

\* lines 265-303 and 502-504 (_precompute_normalized_data): the
\* NormalizedRow of every row, by its name cells
t1_normalized == [n \in Names1, c \in PipelineCfgs |->
                     _precompute_normalized_data(n.last, n.first, c)]
t2_normalized == [n \in Names2, c \in PipelineCfgs |->
                     _precompute_normalized_data(n.last, n.first, c)]

\* the variables a run of the pipeline does not use
IdleRL == rl_t1 = <<>> /\ rl_features = <<>>
IdleCall == args = NoCall /\ ret = NoRet
IdleSem == _semantic_model = 0 /\ constructions = 0 /\ th = <<>>
IdleWin == win = <<>>
IdlePipe ==
    /\ total = 0
    /\ i1 = 0
    /\ r1 = NoRow
    /\ candidates = <<>>
    /\ k = 0
    /\ matching_rows = <<>>
    /\ last_scored = NoScored
    /\ global_seen_pairs = {}

\* match_tables is entered with a configuration, the secondary table and
\* the length of the primary table; the primary row of an iteration is
\* drawn when line 523 reaches it
Init ==
    /\ pc = "start"
    /\ cfg \in PipelineCfgs
    /\ env = DefaultEnv
    /\ t2 \in SeqsUpTo(Rows2, MaxRows2)
    /\ total \in 0..MaxRows1
    /\ i1 = 0
    /\ r1 = NoRow
    /\ candidates = <<>>
    /\ k = 0
    /\ matching_rows = <<>>
    /\ last_scored = NoScored
    /\ results = <<>>
    /\ global_seen_pairs = {}
    /\ progress = <<>>
    /\ IdleRL
    /\ IdleCall
    /\ IdleSem
    /\ IdleWin

\* the row of t2 labelled i2
Row2(i2) == t2[i2 + 1]

\* a faulty index: every row with a date key is filed under every date
T2ByDate_AnyDate(d) ==
    SelectSeq([j \in 1..Len(t2) |-> j - 1],
              LAMBDA i2 : Row2(i2).date # NoneInt)

\* t2_by_date[d] (lines 507-512): the labels of the rows whose date key is
\* d, in table order; rows without a date key are left out
T2ByDate(d) ==
    SelectSeq([j \in 1..Len(t2) |-> j - 1],
              LAMBDA i2 : Row2(i2).date # NoneInt /\ Row2(i2).date = d)

\* append to cands the labels of more that are not in it yet
\* (the seen_indices test)
RECURSIVE AddUnseen(_, _)
AddUnseen(cands, more) ==
    IF more = <<>> THEN cands
    ELSE IF \E j \in 1..Len(cands) : cands[j] = Head(more)
         THEN AddUnseen(cands, Tail(more))
         ELSE AddUnseen(Append(cands, Head(more)), Tail(more))

\* the loop of lines 559-571 from day_offset on
RECURSIVE AddOffsets(_, _, _)
AddOffsets(cands, date1, day_offset) ==
    IF day_offset > cfg.date_tolerance_days THEN cands
    ELSE AddOffsets(AddUnseen(AddUnseen(cands, T2ByDate(date1 - day_offset)),
                              T2ByDate(date1 + day_offset)),
                    date1, day_offset + 1)

\* lines 548-571
FindCandidates(date1) ==
    IF cfg.date_tolerance_days >= 0
    THEN LET exact == AddUnseen(<<>>, T2ByDate(date1))
         IN  IF cfg.date_tolerance_days > 0
             THEN AddOffsets(exact, date1, 1) ELSE exact
    ELSE <<>>

\* lines 460-463 and 691-694; the column "ITR" is the intent-score column
\* of t1
ItrBucket(row) ==
    IF cfg.t1_itr # "" /\ cfg.t1_itr = "ITR" THEN categorize_itr(row.itr)
    ELSE NoneInt

_create_no_match_entry(idx1, row) ==
    [ i1 |-> idx1, T1_date |-> row.date,
      i2 |-> NoneInt, T2_last |-> NoneCell, T2_first |-> NoneCell,
      T2_date |-> NoneInt,
      LastName_Score |-> NoneInt, FirstName_Score |-> NoneInt,
      Combined_Score |-> NoneInt, Confidence |-> "No Match",
      ITR_Bucket |-> ItrBucket(row), date_diff |-> NoneInt ]

\* a faulty merged row: it takes the secondary row of the first candidate
\* instead of the one of the match
MergedRow_FirstCandidate(idx1, row, m) ==
    [ i1 |-> idx1, T1_date |-> row.date,
      i2 |-> candidates[1], T2_last |-> Cell(Row2(candidates[1]).name.last),
      T2_first |-> Cell(Row2(candidates[1]).name.first),
      T2_date |-> Row2(candidates[1]).date,
      LastName_Score |-> m.ls, FirstName_Score |-> m.fs,
      Combined_Score |-> m.combined, Confidence |-> m.conf,
      ITR_Bucket |-> ItrBucket(row), date_diff |-> m.date_diff ]

\* lines 676-696: the merged row of a match; date_diff is no column of the
\* table, it keeps the date_diff of the match
MergedRow(idx1, row, m) ==
    [ i1 |-> idx1, T1_date |-> row.date,
      i2 |-> m.i2, T2_last |-> Cell(Row2(m.i2).name.last),
      T2_first |-> Cell(Row2(m.i2).name.first),
      T2_date |-> Row2(m.i2).date,
      LastName_Score |-> m.ls, FirstName_Score |-> m.fs,
      Combined_Score |-> m.combined, Confidence |-> m.conf,
      ITR_Bucket |-> ItrBucket(row), date_diff |-> m.date_diff ]

\* the throttled progress test of lines 535, 578 and 700
Throttle(idx1) ==
    (idx1 + 1) % Max(1, total \div (100 \div PROGRESS_UPDATE_INTERVAL_PERCENT)) = 0
Pct(idx1) == ((idx1 + 1) * 100) \div total

\* lines 494-521
Start ==
    /\ pc = "start"
    /\ cfg.algorithm # "Record Linkage"
    /\ pc' = IF total = 0 \/ Len(t2) = 0 THEN "done" ELSE "row"
    /\ UNCHANGED <<cfg, env, win, t2, results, progress, pipeVars, rlVars, callVars,
                   semVars>>

\* lines 523-538: a primary row without a date
RowNoDate ==
    /\ pc = "row"
    /\ i1 < total
    /\ \E row \in Rows1 :
        /\ row.date = NoneInt
        /\ r1' = row
        /\ results' = IF cfg.show_all_matches
                      THEN Append(results, _create_no_match_entry(i1, row))
                      ELSE results
    /\ matching_rows' = <<>>
    /\ progress' = IF Throttle(i1) THEN Append(progress, Pct(i1)) ELSE progress
    /\ i1' = i1 + 1
    /\ UNCHANGED <<pc, cfg, env, win, t2, total, candidates, k, last_scored,
                   global_seen_pairs, rlVars, callVars,
                   semVars>>

\* lines 523-527 and 540-581: a primary row without a candidate within
\* tolerance
RowNoCandidates ==
    /\ pc = "row"
    /\ i1 < total
    /\ \E row \in Rows1 :
        /\ row.date # NoneInt
        /\ FindCandidates(row.date) = <<>>
        /\ r1' = row
        /\ results' = IF cfg.show_all_matches
                      THEN Append(results, _create_no_match_entry(i1, row))
                      ELSE results
    /\ matching_rows' = <<>>
    /\ candidates' = <<>>
    /\ progress' = IF Throttle(i1) THEN Append(progress, Pct(i1)) ELSE progress
    /\ i1' = i1 + 1
    /\ UNCHANGED <<pc, cfg, env, win, t2, total, k, last_scored,
                   global_seen_pairs, rlVars, callVars,
                   semVars>>

\* lines 523-527, 540-571 and 583: a primary row with candidates
RowCandidates ==
    /\ pc = "row"
    /\ i1 < total
    /\ \E row \in Rows1 :
        /\ row.date # NoneInt
        /\ FindCandidates(row.date) # <<>>
        /\ r1' = row
        /\ candidates' = FindCandidates(row.date)
    /\ k' = 1
    /\ matching_rows' = <<>>
    /\ last_scored' = NoScored
    /\ pc' = "score"
    /\ UNCHANGED <<cfg, env, win, t2, total, i1, results, global_seen_pairs,
                   progress, rlVars, callVars,
                   semVars>>

\* lines 596-628: the pairs <<last_scored, matching_rows>> after the
\* candidate i2 is scored
Scored(i2, date_diff, t1_norm, t2_norm) ==
    { <<[i2 |-> i2, date_diff |-> date_diff, passed |-> TRUE,
         combined |-> sc[3], conf |-> Classify(sc[3], date_diff, cfg)],
        IF Classify(sc[3], date_diff, cfg) = "skip" THEN matching_rows
        ELSE Append(matching_rows,
                    [i2 |-> i2, ls |-> sc[1], fs |-> sc[2],
                     combined |-> sc[3], date_diff |-> date_diff,
                     conf |-> Classify(sc[3], date_diff, cfg)])>> :
      sc \in UNION { _detailed_scoring(t1_norm, t2_norm, date_diff, cfg,
                                       fz[1], fz[2]) :
                     fz \in UNION { _fuzzy_score(t1_norm.last_norm, t2_norm.last_norm,
                                                 cfg, env, lib[1])
                                    \X _fuzzy_score(t1_norm.first_norm,
                                                    t2_norm.first_norm,
                                                    cfg, env, lib[2]) :
                                    lib \in LibFor(t1_norm.last_norm, t2_norm.last_norm)
                                            \X LibFor(t1_norm.first_norm,
                                                      t2_norm.first_norm) } } }

\* lines 586-628: the same after one iteration of the candidate loop
Iteration(i2, date2, date_diff, t1_norm, t2_norm) ==
    IF date2 = NoneInt \/ ~_quick_filter(t1_norm, t2_norm, cfg)
    THEN { <<[NoScored EXCEPT !.i2 = i2, !.date_diff = date_diff],
             matching_rows>> }
    ELSE Scored(i2, date_diff, t1_norm, t2_norm)

\* lines 584-628: one iteration of the candidate loop
ScoreCandidate ==
    /\ pc = "score"
    /\ k <= Len(candidates)
    /\ \E out \in Iteration(candidates[k], Row2(candidates[k]).date,
                             Abs(r1.date - Row2(candidates[k]).date),
                             t1_normalized[r1.name, cfg],
                             t2_normalized[Row2(candidates[k]).name, cfg]) :
         /\ last_scored' = out[1]
         /\ matching_rows' = out[2]
    /\ k' = k + 1
    /\ UNCHANGED <<pc, cfg, env, win, t2, total, i1, r1, candidates, results,
                   global_seen_pairs, progress, rlVars, callVars,
                   semVars>>

\* lines 634-657: seen_pairs as the list of its values in insertion order
RECURSIVE DedupPairs(_, _)
DedupPairs(seen, rows) ==
    IF rows = <<>> THEN seen
    ELSE LET match == Head(rows)
             at == {j \in 1..Len(seen) : seen[j].i2 = match.i2}
         IN  IF at = {} THEN DedupPairs(Append(seen, match), Tail(rows))
             ELSE LET j == CHOOSE x \in at : TRUE
                      existing == seen[j]
                  IN  IF match.date_diff = 0 /\ existing.date_diff # 0
                      THEN DedupPairs([seen EXCEPT ![j] = match], Tail(rows))
                      ELSE IF existing.date_diff = 0 /\ match.date_diff # 0
                      THEN DedupPairs(seen, Tail(rows))
                      ELSE IF match.combined > existing.combined
                      THEN DedupPairs([seen EXCEPT ![j] = match], Tail(rows))
                      ELSE DedupPairs(seen, Tail(rows))

\* lines 663-664: the first row after the stable sort by
\* (date_diff, -combined)
KeyLess(a, b) == \/ a.date_diff < b.date_diff
                 \/ a.date_diff = b.date_diff /\ a.combined > b.combined
\* a faulty choice: the first retained match, without the sort
BestMatch_First(rows) == rows[1]

BestMatch(rows) ==
    rows[CHOOSE j \in 1..Len(rows) :
            \A m \in 1..Len(rows) :
                /\ ~KeyLess(rows[m], rows[j])
                /\ (m < j => KeyLess(rows[j], rows[m]))]

\* line 663: list.sort by (date_diff, -combined), a stable sort
RECURSIVE InsertRow(_, _)
InsertRow(sorted, row) ==
    IF sorted = <<>> THEN <<row>>
    ELSE IF KeyLess(row, Head(sorted)) THEN <<row>> \o sorted
    ELSE <<Head(sorted)>> \o InsertRow(Tail(sorted), row)
RECURSIVE SortRows(_)
SortRows(rows) ==
    IF rows = <<>> THEN <<>>
    ELSE InsertRow(SortRows(SubSeq(rows, 1, Len(rows) - 1)), rows[Len(rows)])

\* a faulty selection: single-best mode keeps every match
RowsToAdd_AllRows(rows) ==
    IF cfg.show_all_matches THEN DedupPairs(<<>>, rows)
    ELSE rows

\* lines 631-666
RowsToAdd(rows) ==
    IF cfg.show_all_matches THEN DedupPairs(<<>>, rows)
    ELSE IF rows # <<>> THEN <<BestMatch(rows)>>
    ELSE <<>>

\* lines 668-696: <<results, global_seen_pairs>> after the emit loop
RECURSIVE EmitRows(_, _, _)
EmitRows(res, seen, rows) ==
    IF rows = <<>> THEN <<res, seen>>
    ELSE LET m == Head(rows)
             pair_key == <<i1, m.i2>>
         IN  IF cfg.show_all_matches
             THEN IF pair_key \in seen
                  THEN EmitRows(res, seen, Tail(rows))
                  ELSE EmitRows(Append(res, MergedRow(i1, r1, m)),
                                seen \cup {pair_key}, Tail(rows))
             ELSE EmitRows(Append(res, MergedRow(i1, r1, m)), seen, Tail(rows))

\* lines 630-702: selection, emission and progress of one primary row
SelectEmit ==
    /\ pc = "score"
    /\ k > Len(candidates)
    /\ LET res0 == IF cfg.show_all_matches /\ matching_rows = <<>>
                   THEN Append(results, _create_no_match_entry(i1, r1))
                   ELSE results
           out == EmitRows(res0, global_seen_pairs, RowsToAdd(matching_rows))
       IN  /\ results' = out[1]
           /\ global_seen_pairs' = out[2]
    /\ progress' = IF Throttle(i1) \/ i1 + 1 = total
                   THEN Append(progress, Pct(i1)) ELSE progress
    /\ i1' = i1 + 1
    /\ pc' = "row"
    /\ matching_rows' = IF cfg.show_all_matches THEN matching_rows
                        ELSE SortRows(matching_rows)
    /\ UNCHANGED <<cfg, env, win, t2, total, r1, candidates, k,
                   last_scored, rlVars, callVars,
                   semVars>>

\* line 704
Finish ==
    /\ pc = "row"
    /\ i1 = total
    /\ pc' = "done"
    /\ UNCHANGED <<cfg, env, win, t2, results, progress, pipeVars, rlVars, callVars,
                   semVars>>

Next ==
    \/ Start
    \/ RowNoDate
    \/ RowNoCandidates
    \/ RowCandidates
    \/ ScoreCandidate
    \/ SelectEmit
    \/ Finish

Spec == Init /\ [][Next]_vars

(***************************************************************************)
(* match_tables over long primary tables, for the progress callback.  At   *)
(* 100 rows and more the throttle interval max(1, total // 100) exceeds 1. *)
(* The secondary table holds one row that no primary row passes the quick  *)
(* filter against, so the output stays empty while every path of the loop  *)
(* is taken.  The loop of line 523 is a for loop over a finite table and   *)
(* every step of it terminates: weak fairness of Next.                     *)
(***************************************************************************)
MaxTotal == 201
ProgressTotals == {1, 2, MaxTotal - 1, MaxTotal}

ProgressT2 == << [date |-> 0,
                  name |-> [last |-> <<"R", "e", "a">>, first |-> <<"A", "l">>]] >>

InitProgress ==
    /\ pc = "start"
    /\ cfg \in {c \in PipelineCfgs : /\ ~c.show_all_matches
                                      /\ c.date_tolerance_days = 0
                                      /\ ~c.enable_multi_pass}
    /\ env = DefaultEnv
    /\ t2 = ProgressT2
    /\ total \in ProgressTotals
    /\ i1 = 0
    /\ r1 = NoRow
    /\ candidates = <<>>
    /\ k = 0
    /\ matching_rows = <<>>
    /\ last_scored = NoScored
    /\ results = <<>>
    /\ global_seen_pairs = {}
    /\ progress = <<>>
    /\ IdleRL
    /\ IdleCall
    /\ IdleSem
    /\ IdleWin

SpecProgress == InitProgress /\ [][Next]_vars /\ WF_vars(Next)

(***************************************************************************)
(* record_linkage_matcher.py: match_with_recordlinkage, entered from       *)
(* match_tables when cfg.algorithm is "Record Linkage".                    *)
(*                                                                         *)
(* rl_features is the table compare.compute returns: one record per        *)
(* candidate pair with the three features, each 0 or 1.  The string        *)
(* features are inputs (recordlinkage's jarowinkler at threshold 0.7);     *)
(* two equal non-empty strings compare as 1.                               *)
(***************************************************************************)
RLCfgs ==
    [ algorithm : {"Record Linkage"},
      threshold : {85, 100},
      t1_itr : {"ITR"},
      enable_pre_norm : {TRUE},
      enable_enhanced_fuzzy : {TRUE},
      enable_date_bonus : {TRUE},
      enable_phonetic : {FALSE},
      enable_variants : {TRUE},
      enable_double_surname : {TRUE},
      enable_safe_missing : {TRUE},
      show_all_matches : BOOLEAN,
      date_tolerance_days : {0},
      enable_multi_pass : {TRUE} ]

InitRL ==
    /\ pc = "start"
    /\ cfg \in RLCfgs
    /\ env \in {[DefaultEnv EXCEPT !.HAS_RECORDLINKAGE = h] : h \in BOOLEAN}
    /\ rl_t1 \in SeqsUpTo(Rows1, MaxRows1)
    /\ t2 \in SeqsUpTo(Rows2, MaxRows2)
    /\ rl_features = <<>>
    /\ results = <<>>
    /\ progress = <<>>
    /\ IdlePipe
    /\ IdleCall
    /\ IdleSem
    /\ IdleWin

RLRow1(idx1) == rl_t1[idx1 + 1]

\* lines 48-61: the pairs of the blocking index on "__date", rows without
\* a date filtered out, from the pair (idx1, idx2) on
RECURSIVE candidate_pairs(_, _)
candidate_pairs(idx1, idx2) ==
    IF idx1 >= Len(rl_t1) THEN <<>>
    ELSE IF idx2 >= Len(t2) THEN candidate_pairs(idx1 + 1, 0)
    ELSE IF /\ RLRow1(idx1).date # NoneInt
            /\ Row2(idx2).date # NoneInt
            /\ RLRow1(idx1).date = Row2(idx2).date
         THEN <<[idx1 |-> idx1, idx2 |-> idx2]>> \o candidate_pairs(idx1, idx2 + 1)
         ELSE candidate_pairs(idx1, idx2 + 1)

\* the values compare.string can give for the cells a and b
StringFeature(a, b) == IF a = b /\ a # <<>> THEN {1} ELSE {0, 1}

\* lines 70-74: the feature vectors compare.compute can give the pair p
FeatureVectors(p) ==
    { [ idx1 |-> p.idx1, idx2 |-> p.idx2,
        last_name |-> l, first_name |-> f,
        date_exact |-> IF RLRow1(p.idx1).date = Row2(p.idx2).date THEN 1 ELSE 0 ] :
      l \in StringFeature(RLRow1(p.idx1).name.last, Row2(p.idx2).name.last),
      f \in StringFeature(RLRow1(p.idx1).name.first, Row2(p.idx2).name.first) }

\* line 77: the feature tables compare.compute can return
RECURSIVE FeatureTables(_)
FeatureTables(pairs) ==
    IF pairs = <<>> THEN {<<>>}
    ELSE { <<v>> \o rest : v \in FeatureVectors(Head(pairs)),
                           rest \in FeatureTables(Tail(pairs)) }

\* a faulty sum: the names only
feature_sum_NamesOnly(f) == f.last_name + f.first_name

\* line 81: features.sum(axis=1)
feature_sum(f) == f.last_name + f.first_name + f.date_exact

\* line 82: feature_sum >= threshold, with threshold = cfg.threshold / 100.0
RLMatches(features) ==
    SelectSeq(features, LAMBDA f : 100 * feature_sum(f) >= cfg.threshold)

\* lines 102-109
RLConfidence(combined) ==
    IF combined >= 90 THEN "High"
    ELSE IF combined >= 80 THEN "Medium"
    ELSE IF combined >= 70 THEN "Low"
    ELSE "Very Low"

\* lines 93-138: the row of one match; the column "ITR" of t1 is the first
\* one whose name contains "itr"
RLMergedRow(f) ==
    LET combined == 100 * feature_sum(f)
    IN  [ i1 |-> f.idx1, T1_date |-> RLRow1(f.idx1).date,
          i2 |-> f.idx2, T2_last |-> Cell(Row2(f.idx2).name.last),
          T2_first |-> Cell(Row2(f.idx2).name.first),
          T2_date |-> Row2(f.idx2).date,
          LastName_Score |-> 100 * f.last_name,
          FirstName_Score |-> 100 * f.first_name,
          Combined_Score |-> combined, Confidence |-> RLConfidence(combined),
          ITR_Bucket |-> categorize_itr(RLRow1(f.idx1).itr),
          date_diff |-> Abs(RLRow1(f.idx1).date - Row2(f.idx2).date) ]

\* lines 150-162
RLNoMatchRow(idx1) ==
    [ i1 |-> idx1, T1_date |-> RLRow1(idx1).date,
      i2 |-> NoneInt, T2_last |-> NoneCell, T2_first |-> NoneCell,
      T2_date |-> NoneInt,
      LastName_Score |-> NoneInt, FirstName_Score |-> NoneInt,
      Combined_Score |-> NoneInt, Confidence |-> "No Match",
      ITR_Bucket |-> NoneInt, date_diff |-> NoneInt ]

\* lines 88-143: <<results, seen_pairs, progress>> after the loop over ms,
\* n being len(matches)
RECURSIVE RLBuild(_, _, _, _, _)
RLBuild(res, seen, prog, ms, n) ==
    IF ms = <<>> THEN <<res, seen, prog>>
    ELSE LET f == Head(ms)
             pair == <<f.idx1, f.idx2>>
         IN  IF ~cfg.show_all_matches /\ pair \in seen
             THEN RLBuild(res, seen, prog, Tail(ms), n)
             ELSE LET res1 == Append(res, RLMergedRow(f))
                      prog1 == IF Len(res1) % 10 = 0
                               THEN Append(prog, Min(99, (Len(res1) * 100) \div Max(1, n)))
                               ELSE prog
                  IN  RLBuild(res1, seen \cup {pair}, prog1, Tail(ms), n)

\* lines 146-162: the rows of the primary rows from idx1 on that no match
\* names
RECURSIVE RLUnmatched(_, _)
RLUnmatched(idx1, matched_t1_indices) ==
    IF idx1 >= Len(rl_t1) THEN <<>>
    ELSE IF idx1 \in matched_t1_indices
         THEN RLUnmatched(idx1 + 1, matched_t1_indices)
         ELSE <<RLNoMatchRow(idx1)>> \o RLUnmatched(idx1 + 1, matched_t1_indices)

\* matcher.py lines 478-492 and record_linkage_matcher.py lines 38-64
RLStart ==
    /\ pc = "start"
    /\ cfg.algorithm = "Record Linkage"
    /\ pc' = IF ~env.HAS_RECORDLINKAGE THEN "done"
             ELSE IF candidate_pairs(0, 0) = <<>> THEN "done"
             ELSE "compare"
    /\ UNCHANGED <<cfg, env, win, t2, results, progress, pipeVars, rlVars, callVars,
                   semVars>>

\* lines 66-77
RLCompare ==
    /\ pc = "compare"
    /\ rl_features' \in FeatureTables(candidate_pairs(0, 0))
    /\ pc' = "rows"
    /\ UNCHANGED <<cfg, env, win, t2, results, progress, pipeVars, rl_t1, callVars,
                   semVars>>

\* a faulty handler: the rows built before the failure are returned
RLFailureResult_Partial(res) == res

\* lines 169-173: return pd.DataFrame()
RLFailureResult(res) == <<>>

\* lines 42-173: a statement inside the try block raises (a missing column
\* at lines 48-49, the library at lines 59-77, the building of a row, or
\* progress_cb at line 143 or 165) and the handler of line 169 returns.
\* The loop of line 88 has handled some of the matches by then, and the
\* callback of line 165 has or has not been entered.
RLError ==
    /\ pc \in {"start", "compare", "rows", "unmatched"}
    /\ cfg.algorithm = "Record Linkage"
    /\ env.HAS_RECORDLINKAGE
    /\ \/ /\ pc \in {"start", "compare"}
          /\ progress' = progress
       \/ /\ pc = "rows"
          /\ \E j \in 0..Len(RLMatches(rl_features)) :
                progress' = RLBuild(<<>>, {}, progress,
                                    SubSeq(RLMatches(rl_features), 1, j),
                                    Len(RLMatches(rl_features)))[3]
       \/ /\ pc = "unmatched"
          /\ progress' \in {progress, Append(progress, 100)}
    /\ results' = RLFailureResult(results)
    /\ pc' = "failed"
    /\ UNCHANGED <<cfg, env, win, t2, pipeVars, rlVars, callVars, semVars>>

\* lines 79-143
RLBuildRows ==
    /\ pc = "rows"
    /\ LET matches == RLMatches(rl_features)
           out == RLBuild(<<>>, {}, progress, matches, Len(matches))
       IN  /\ results' = out[1]
           /\ progress' = out[3]
    /\ pc' = "unmatched"
    /\ UNCHANGED <<cfg, env, win, t2, pipeVars, rlVars, callVars, semVars>>

\* lines 145-167
RLFinish ==
    /\ pc = "unmatched"
    /\ LET matches == RLMatches(rl_features)
           matched_t1_indices == {matches[j].idx1 : j \in 1..Len(matches)}
       IN  results' = IF cfg.show_all_matches
                      THEN results \o RLUnmatched(0, matched_t1_indices)
                      ELSE results
    /\ progress' = Append(progress, 100)
    /\ pc' = "done"
    /\ UNCHANGED <<cfg, env, win, t2, pipeVars, rlVars, callVars, semVars>>

NextRL ==
    \/ RLStart
    \/ RLCompare
    \/ RLError
    \/ RLBuildRows
    \/ RLFinish

SpecRL == InitRL /\ [][NextRL]_vars

(***************************************************************************)
(* Calls of the scoring functions on their own.  args holds the arguments  *)
(* of one call, ret what it returned.                                      *)
(***************************************************************************)
BaseCfg ==
    [ algorithm |-> "Weighted Ratio", threshold |-> 85, t1_itr |-> "",
      enable_pre_norm |-> TRUE, enable_enhanced_fuzzy |-> TRUE,
      enable_date_bonus |-> TRUE, enable_phonetic |-> FALSE,
      enable_variants |-> TRUE, enable_double_surname |-> TRUE,
      enable_safe_missing |-> TRUE, show_all_matches |-> FALSE,
      date_tolerance_days |-> 1, enable_multi_pass |-> TRUE ]

\* the algorithm names _fuzzy_score tells apart
FuzzyAlgorithms == {"Weighted Ratio", "Partial Ratio", "Jaro-Winkler",
                    "Ensemble", "Semantic Matching", "Double Metaphone"}

FuzzyCfgs ==
    { [BaseCfg EXCEPT !.algorithm = alg, !.enable_enhanced_fuzzy = enh] :
      alg \in FuzzyAlgorithms, enh \in BOOLEAN }

FuzzyEnvs ==
    { [HAS_SEMANTIC |-> s, HAS_METAPHONE |-> m, HAS_RECORDLINKAGE |-> TRUE,
       model_loads |-> l] : s \in BOOLEAN, m \in BOOLEAN, l \in BOOLEAN }

FuzzyStrings == { <<>>, <<"a", "l">>, <<"b", "o">> }

\* the <<primary, secondary>> codes doublemetaphone can give a string; the
\* codes of the empty string are empty
DmCodes(s) == IF s = <<>> THEN { <<"", "">> }
              ELSE { <<"AL", "">>, <<"AL", "P">>, <<"P", "AL">> }

\* what the libraries can return for the pair (a, b): a ratio of two equal
\* strings is 100, a ratio of an empty and a non-empty string is 0, and
\* doublemetaphone is a function of its string
FuzzyLib(a, b) ==
    { [ partial |-> x, jw |-> x, wratio |-> x, token_sort |-> x,
        sem_raises |-> r, sem |-> x, dm_raises |-> r,
        dm1 |-> c[1], dm2 |-> c[2] ] :
      x \in (IF a = b THEN {100}
             ELSE IF a = <<>> \/ b = <<>> THEN {0}
             ELSE {0, 66, 100}),
      r \in BOOLEAN,
      c \in { d \in DmCodes(a) \X DmCodes(b) : a = b => d[1] = d[2] } }

InitFuzzy ==
    /\ pc = "call"
    /\ cfg \in FuzzyCfgs
    /\ env \in FuzzyEnvs
    /\ \E a \in FuzzyStrings, b \in FuzzyStrings :
         \E lib \in FuzzyLib(a, b) :
            args = [fn |-> "_fuzzy_score", a |-> a, b |-> b, lib |-> lib]
    /\ ret = NoRet
    /\ t2 = <<>>
    /\ results = <<>>
    /\ progress = <<>>
    /\ IdlePipe
    /\ IdleRL
    /\ IdleSem
    /\ IdleWin

\* lines 226-242
FuzzyCall ==
    /\ pc = "call"
    /\ args.fn = "_fuzzy_score"
    /\ \E v \in _fuzzy_score(args.a, args.b, cfg, env, args.lib) :
         ret' = [done |-> TRUE, val |-> <<v>>]
    /\ pc' = "returned"
    /\ UNCHANGED <<cfg, env, win, t2, results, progress, pipeVars, rlVars, args, semVars>>

NextFuzzy == FuzzyCall

SpecFuzzy == InitFuzzy /\ [][NextFuzzy]_vars

\* the configurations of the calls of _detailed_scoring
ScoreCfgs ==
    { [BaseCfg EXCEPT !.threshold = t, !.enable_safe_missing = sm,
                      !.enable_date_bonus = db, !.enable_phonetic = ph,
                      !.date_tolerance_days = tol] :
      t \in {0, 85, 100}, sm \in BOOLEAN, db \in BOOLEAN, ph \in BOOLEAN,
      tol \in 0..MaxTol }

\* raw (last, first) names: balanced lengths, a long last name, a long
\* first name, a missing first name
ScoreNames ==
    { [last |-> <<"L", "e", "e">>, first |-> <<"A", "l">>],
      [last |-> <<"L", "e", "e", "s", "o", "n">>, first |-> <<"A", "l">>],
      [last |-> <<"L", "i">>, first |-> <<"A", "l", "b", "e", "r", "t">>],
      [last |-> <<"L", "e", "a">>, first |-> <<>>] }

\* values of the two _fuzzy_score calls
FuzzyVals == {0, 50, 97, 100}

\* lines 265-303: the NormalizedRow of each name under each configuration
ScoreRows == [n \in ScoreNames, c \in ScoreCfgs |->
                 _precompute_normalized_data(n.last, n.first, c)]

InitScore ==
    /\ pc = "call"
    /\ cfg \in ScoreCfgs
    /\ env = DefaultEnv
    /\ \E n1 \in ScoreNames, n2 \in ScoreNames, dd \in 0..(MaxTol + 1),
          fl \in FuzzyVals, ff \in FuzzyVals :
         args = [fn |-> "_detailed_scoring",
                 t1_norm |-> ScoreRows[n1, cfg], t2_norm |-> ScoreRows[n2, cfg],
                 date_diff |-> dd, fz_last |-> fl, fz_first |-> ff]
    /\ ret = NoRet
    /\ t2 = <<>>
    /\ results = <<>>
    /\ progress = <<>>
    /\ IdlePipe
    /\ IdleRL
    /\ IdleSem
    /\ IdleWin

\* lines 354-419
ScoreCall ==
    /\ pc = "call"
    /\ args.fn = "_detailed_scoring"
    /\ \E st \in DetailedSteps(args.t1_norm, args.t2_norm, args.date_diff,
                               cfg, args.fz_last, args.fz_first) :
         ret' = [done |-> TRUE,
                 val |-> <<st.last_score, st.first_score, st.combined>>,
                 steps |-> st]
    /\ pc' = "returned"
    /\ UNCHANGED <<cfg, env, win, t2, results, progress, pipeVars, rlVars, args, semVars>>

NextScore == ScoreCall

SpecScore == InitScore /\ [][NextScore]_vars

(***************************************************************************)
(* Two calls of _detailed_scoring on the same two rows, configuration and  *)
(* date difference, P and then Q, which differ only in the values of       *)
(* their _fuzzy_score calls.                                               *)
(***************************************************************************)
\* values of the _fuzzy_score calls of the two candidates
MonoVals == {80, 85}

InitMono ==
    /\ pc = "call"
    /\ cfg \in ScoreCfgs
    /\ env = DefaultEnv
    /\ \E n2 \in ScoreNames, dd \in 0..(MaxTol + 1),
          pl \in MonoVals, pf \in MonoVals, ql \in MonoVals, qf \in MonoVals :
         args = [fn |-> "_detailed_scoring_twice",
                 t1_norm |-> ScoreRows[[last |-> <<"L", "e", "e">>,
                                        first |-> <<"A", "l">>], cfg],
                 t2_norm |-> ScoreRows[n2, cfg],
                 date_diff |-> dd,
                 p |-> [fz_last |-> pl, fz_first |-> pf],
                 q |-> [fz_last |-> ql, fz_first |-> qf]]
    /\ ret = NoRet
    /\ t2 = <<>>
    /\ results = <<>>
    /\ progress = <<>>
    /\ IdlePipe
    /\ IdleRL
    /\ IdleSem
    /\ IdleWin

\* lines 354-419, for P
MonoCallP ==
    /\ pc = "call"
    /\ args.fn = "_detailed_scoring_twice"
    /\ \E st \in DetailedSteps(args.t1_norm, args.t2_norm, args.date_diff,
                               cfg, args.p.fz_last, args.p.fz_first) :
         ret' = [done |-> FALSE, val |-> <<st>>]
    /\ pc' = "second"
    /\ UNCHANGED <<cfg, env, win, t2, results, progress, pipeVars, rlVars, args, semVars>>

\* lines 354-419, for Q
MonoCallQ ==
    /\ pc = "second"
    /\ args.fn = "_detailed_scoring_twice"
    /\ \E st \in DetailedSteps(args.t1_norm, args.t2_norm, args.date_diff,
                               cfg, args.q.fz_last, args.q.fz_first) :
         ret' = [done |-> TRUE, val |-> Append(ret.val, st)]
    /\ pc' = "returned"
    /\ UNCHANGED <<cfg, env, win, t2, results, progress, pipeVars, rlVars, args, semVars>>

NextMono == MonoCallP \/ MonoCallQ

SpecMono == InitMono /\ [][NextMono]_vars

(***************************************************************************)
(* Calls of soundex_code on the strings of up to MaxNameLen characters     *)
(* over a letter, a capital, an accented letter, a space, a punctuation    *)
(* mark and a digit.                                                       *)
(***************************************************************************)
MaxNameLen == 3
SoundexChars == {"b", "R", "é", " ", "-", "1"}
SoundexInputs == SeqsUpTo(SoundexChars, MaxNameLen)

InitSoundex ==
    /\ pc = "call"
    /\ cfg = BaseCfg
    /\ env = DefaultEnv
    /\ \E name \in SoundexInputs : args = [fn |-> "soundex_code", name |-> name]
    /\ ret = NoRet
    /\ t2 = <<>>
    /\ results = <<>>
    /\ progress = <<>>
    /\ IdlePipe
    /\ IdleRL
    /\ IdleSem
    /\ IdleWin

\* name_normalizer.py lines 80-115
SoundexCall ==
    /\ pc = "call"
    /\ args.fn = "soundex_code"
    /\ ret' = [done |-> TRUE, val |-> soundex_code(args.name)]
    /\ pc' = "returned"
    /\ UNCHANGED <<cfg, env, win, t2, results, progress, pipeVars, rlVars, args, semVars>>

NextSoundex == SoundexCall

SpecSoundex == InitSoundex /\ [][NextSoundex]_vars

(***************************************************************************)
(* Calls of categorize_itr on the cells of an intent-score column: None,   *)
(* blank text, non-numeric text, NaN, and the numbers -MaxItrHalf/2 ..     *)
(* MaxItrHalf/2 in steps of one half.                                      *)
(***************************************************************************)
MaxItrHalf == 30
ItrInputs ==
    { [kind |-> kd, half |-> 0] : kd \in {"none", "blank", "text", "nan"} }
    \cup { [kind |-> "num", half |-> h] : h \in (0 - MaxItrHalf)..MaxItrHalf }

InitItr ==
    /\ pc = "call"
    /\ cfg = BaseCfg
    /\ env = DefaultEnv
    /\ \E value \in ItrInputs : args = [fn |-> "categorize_itr", value |-> value]
    /\ ret = NoRet
    /\ t2 = <<>>
    /\ results = <<>>
    /\ progress = <<>>
    /\ IdlePipe
    /\ IdleRL
    /\ IdleSem
    /\ IdleWin

\* itr_categorizer.py lines 6-29
ItrCall ==
    /\ pc = "call"
    /\ args.fn = "categorize_itr"
    /\ ret' = [done |-> TRUE, val |-> <<categorize_itr(args.value)>>]
    /\ pc' = "returned"
    /\ UNCHANGED <<cfg, env, win, t2, results, progress, pipeVars, rlVars, args, semVars>>

NextItr == ItrCall

SpecItr == InitItr /\ [][NextItr]_vars

(***************************************************************************)
(* Calls of parse_date_safe: None, a float NaN, a datetime, a date, a      *)
(* number in and out of the range of Excel serial numbers, null-sentinel   *)
(* texts, and a text with every outcome of the strategies and of the       *)
(* regular expressions, among them days, months and years out of range.    *)
(***************************************************************************)
DateLibs == [s1 : {"raise", "Timestamp", "other"},
             s2 : {"raise", "Timestamp", "other"},
             hit : {0, 1},
             s4 : {"raise", "datetime"}]
NoLib == [s1 |-> "raise", s2 |-> "raise", hit |-> 0, s4 |-> "raise"]

DayMonthVals == {0, 2, 13, 31}
NoMatch == [pattern |-> 0, g1 |-> 0, g2 |-> 0, g3 |-> 0]
DateMatches ==
    {NoMatch}
    \cup [pattern : {1}, g1 : DayMonthVals, g2 : DayMonthVals, g3 : {0, 2024}]
    \cup [pattern : {2}, g1 : DayMonthVals, g2 : DayMonthVals, g3 : {24, 99}]
    \cup [pattern : {3, 4}, g1 : {0, 2024}, g2 : DayMonthVals, g3 : DayMonthVals]

SentinelTexts == { <<>>, <<" ">>, <<"N", "a", "N">>, <<"n", "a", "n", " ">>,
                   <<" ", "N", "u", "l", "l">>, <<"N", "O", "N", "E">> }

NoDateValue == [kind |-> "none", text |-> <<>>, date |-> <<>>, in_range |-> FALSE,
                excel_raises |-> FALSE, lib |-> NoLib, m |-> NoMatch]
DateInputs ==
    { [NoDateValue EXCEPT !.kind = kd] : kd \in {"none", "nan"} }
    \cup { [NoDateValue EXCEPT !.kind = kd, !.date = LibDate] :
             kd \in {"datetime", "date"} }
    \cup { [NoDateValue EXCEPT !.kind = "number", !.text = <<"5">>,
                               !.in_range = r, !.excel_raises = x, !.lib = l] :
             r \in BOOLEAN, x \in BOOLEAN, l \in DateLibs }
    \cup { [NoDateValue EXCEPT !.kind = "str", !.text = t] : t \in SentinelTexts }
    \cup { [NoDateValue EXCEPT !.kind = "str", !.text = <<"x">>,
                               !.lib = l, !.m = m] :
             l \in DateLibs, m \in DateMatches }

InitDate ==
    /\ pc = "call"
    /\ cfg = BaseCfg
    /\ env = DefaultEnv
    /\ \E value \in DateInputs : args = [fn |-> "parse_date_safe", value |-> value]
    /\ ret = NoRet
    /\ t2 = <<>>
    /\ results = <<>>
    /\ progress = <<>>
    /\ IdlePipe
    /\ IdleRL
    /\ IdleSem
    /\ IdleWin

\* date_normalizer.py lines 10-64
DateCall ==
    /\ pc = "call"
    /\ args.fn = "parse_date_safe"
    /\ ret' = [done |-> TRUE, val |-> parse_date_safe(args.value)]
    /\ pc' = "returned"
    /\ UNCHANGED <<cfg, env, win, t2, results, progress, pipeVars, rlVars, args, semVars>>

NextDate == DateCall

SpecDate == InitDate /\ [][NextDate]_vars

(***************************************************************************)
(* Calls of parse_date_safe on the texts with a two-digit year.            *)
(***************************************************************************)
ShortYears == {0, 30, 31, 45, 68, 69, 99}
ShortTexts == [d1 : DayMonthVals, d2 : DayMonthVals, yy : ShortYears,
               sep : {"/", "-", ".", "/-"}]
ShortLibs == [s1 : {"raise", "Timestamp"}, s2 : {"raise", "Timestamp"},
              s4 : {"raise", "datetime"}, century : {1900, 2000}]

InitYear ==
    /\ pc = "call"
    /\ cfg = BaseCfg
    /\ env = DefaultEnv
    /\ \E t \in ShortTexts, lib \in ShortLibs :
         args = [fn |-> "parse_date_safe", short |-> t, lib |-> lib]
    /\ ret = NoRet
    /\ t2 = <<>>
    /\ results = <<>>
    /\ progress = <<>>
    /\ IdlePipe
    /\ IdleRL
    /\ IdleSem
    /\ IdleWin

\* date_normalizer.py lines 23-64
YearCall ==
    /\ pc = "call"
    /\ args.fn = "parse_date_safe"
    /\ ret' = [done |-> TRUE, val |-> ParseShortYear(args.short, args.lib)]
    /\ pc' = "returned"
    /\ UNCHANGED <<cfg, env, win, t2, results, progress, pipeVars, rlVars, args, semVars>>

NextYear == YearCall

SpecYear == InitYear /\ [][NextYear]_vars

(***************************************************************************)
(* gui/main_window.py: MainWindow.run_match.  w is the window when the     *)
(* handler is entered: the two tables (NoTable: not loaded; else the set   *)
(* of column names and the number of rows), the text of the seven combo    *)
(* boxes of the required roles, the algorithm combo box, the answer to the *)
(* large-dataset question, the run-all check box and whether the export    *)
(* folder exists.  The outcome names the warning shown ("" for none) and   *)
(* what the handler did.                                                   *)
(***************************************************************************)
LargeDatasetRows == 10000
NoTable == [loaded |-> FALSE, columns |-> {}, rows |-> 0]
Table(columns, rows) == [loaded |-> TRUE, columns |-> columns, rows |-> rows]

required_gss(w) == <<w.t1_last, w.t1_first, w.t1_date>>
required_opera(w) == <<w.t2_last, w.t2_first, w.t2_date, w.t2_user>>

\* line 1030: not x or not x.strip()
Blank(x) == x = <<>> \/ Strip(x) = <<>>

\* a faulty check: only the columns of the primary table are looked up
missing_cols_GssOnly(w) ==
    {c \in {required_gss(w)[j] : j \in 1..3} : c \notin w.gss_df.columns}

\* lines 1038-1046
missing_cols(w) ==
    {c \in {required_gss(w)[j] : j \in 1..3} : c \notin w.gss_df.columns}
    \cup {c \in {required_opera(w)[j] : j \in 1..4} : c \notin w.opera_df.columns}

Outcome(warning, persisted, constructed, started, called) ==
    [warning |-> warning, persisted |-> persisted,
     worker_constructed |-> constructed, worker_started |-> started,
     match_tables_called |-> called]

\* lines 1011-1125, and lines 1127-1150 of _run_all_algorithms; a started
\* MatchWorker calls match_tables (threads.py line 23)
run_match(w) ==
    IF ~w.gss_df.loaded \/ ~w.opera_df.loaded
    THEN Outcome("Error", FALSE, FALSE, FALSE, FALSE)
    ELSE IF \E j \in 1..7 : Blank((required_gss(w) \o required_opera(w))[j])
    THEN Outcome("Mapping Error", FALSE, FALSE, FALSE, FALSE)
    ELSE IF missing_cols(w) # {}
    THEN Outcome("Mapping Error", FALSE, FALSE, FALSE, FALSE)
    ELSE IF (w.gss_df.rows > LargeDatasetRows \/ w.opera_df.rows > LargeDatasetRows)
            /\ w.reply = "No"
    THEN Outcome("Large Dataset", FALSE, FALSE, FALSE, FALSE)
    ELSE IF ~w.algo_valid
    THEN Outcome("Invalid Algorithm", TRUE, FALSE, FALSE, FALSE)
    ELSE IF w.run_all
    THEN IF ~w.export_folder_ok
         THEN Outcome("Export Folder Required", TRUE, FALSE, FALSE, FALSE)
         ELSE Outcome("", TRUE, FALSE, FALSE, TRUE)
    ELSE Outcome("", TRUE, TRUE, TRUE, TRUE)

\* column names, a stale name no table holds, and blank texts
ColL == <<"L", "a", "s", "t">>
ColF == <<"F", "i", "r", "s", "t">>
ColD == <<"D", "a", "t", "e">>
ColU == <<"U", "s", "e", "r">>
ColGone == <<"G", "o", "n", "e">>
GssTables == {NoTable, Table({ColL, ColF, ColD}, 10),
              Table({ColL, ColF, ColD}, LargeDatasetRows + 1)}
OperaTables == {NoTable, Table({ColL, ColF, ColD, ColU}, 10)}
Windows ==
    [ gss_df : GssTables, opera_df : OperaTables,
      t1_last : {<<>>, <<" ">>, ColL, ColGone},
      t1_first : {<<>>, ColF}, t1_date : {<<>>, ColD},
      t2_last : {<<>>, ColL}, t2_first : {<<>>, ColF}, t2_date : {<<>>, ColD},
      t2_user : {<<>>, ColU, ColGone},
      reply : {"Yes", "No"}, algo_valid : BOOLEAN, run_all : BOOLEAN,
      export_folder_ok : {TRUE} ]
    \cup
    [ gss_df : {Table({ColL, ColF, ColD}, 10)}, opera_df : OperaTables,
      t1_last : {ColL}, t1_first : {ColF}, t1_date : {ColD},
      t2_last : {ColL}, t2_first : {ColF}, t2_date : {ColD}, t2_user : {ColU},
      reply : {"Yes"}, algo_valid : {TRUE}, run_all : {TRUE},
      export_folder_ok : {FALSE} ]

InitGui ==
    /\ pc = "call"
    /\ cfg = BaseCfg
    /\ env = DefaultEnv
    /\ \E w \in Windows : args = [fn |-> "run_match", w |-> w]
    /\ ret = NoRet
    /\ t2 = <<>>
    /\ results = <<>>
    /\ progress = <<>>
    /\ IdlePipe
    /\ IdleRL
    /\ IdleSem
    /\ IdleWin

RunMatch ==
    /\ pc = "call"
    /\ args.fn = "run_match"
    /\ ret' = [done |-> TRUE, val |-> run_match(args.w)]
    /\ pc' = "returned"
    /\ UNCHANGED <<cfg, env, win, t2, results, progress, pipeVars, rlVars, args, semVars>>

NextGui == RunMatch

SpecGui == InitGui /\ [][NextGui]_vars

(***************************************************************************)
(* gui/main_window.py: the main window under the events of the user and    *)
(* of its MatchWorker threads.  The handlers run one at a time on the GUI  *)
(* thread, which stays responsive while a MatchWorker runs match_tables on *)
(* its own thread (threads.py lines 19-24).  win.w is the window as        *)
(* run_match reads it, win.btn_run whether the Run button is enabled,      *)
(* win.match_worker the worker self.match_worker names (0: None, n: the    *)
(* n-th MatchWorker constructed) and win.running the workers whose thread  *)
(* has not finished.  The run-all check box stays unchecked.               *)
(***************************************************************************)
MaxWorkers == 4

\* lines 840-869: whether the handler leaves the Run button enabled
validate_ready_state(w) ==
    IF ~w.gss_df.loaded \/ ~w.opera_df.loaded THEN FALSE
    ELSE IF \E j \in 1..7 : Blank((required_gss(w) \o required_opera(w))[j])
    THEN FALSE
    ELSE IF missing_cols(w) # {} THEN FALSE
    ELSE TRUE

\* lines 98-108 and 252-253: nothing loaded, the combo boxes empty, the
\* button disabled, no worker
NewWindow ==
    [ w |-> [ gss_df |-> NoTable, opera_df |-> NoTable,
              t1_last |-> <<>>, t1_first |-> <<>>, t1_date |-> <<>>,
              t2_last |-> <<>>, t2_first |-> <<>>, t2_date |-> <<>>,
              t2_user |-> <<>>,
              reply |-> "Yes", algo_valid |-> TRUE, run_all |-> FALSE,
              export_folder_ok |-> TRUE ],
      threshold |-> 85,
      btn_run |-> FALSE,
      match_worker |-> 0,
      running |-> {},
      constructed |-> 0 ]

InitEvents ==
    /\ pc = "gui"
    /\ cfg = BaseCfg
    /\ env = DefaultEnv
    /\ win = NewWindow
    /\ t2 = <<>>
    /\ results = <<>>
    /\ progress = <<>>
    /\ IdlePipe
    /\ IdleRL
    /\ IdleCall
    /\ IdleSem

\* the window after a handler that changed it to w and ended in
\* validate_ready_state
Revalidated(w) == [win EXCEPT !.w = w, !.btn_run = validate_ready_state(w)]

\* lines 871-938: load_t1 reads a file, fills the combo boxes of the
\* primary table and calls validate_ready_state
LoadT1 ==
    /\ pc = "gui"
    /\ win' = Revalidated([win.w EXCEPT !.gss_df = Table({ColL, ColF, ColD}, 10),
                                        !.t1_last = ColL, !.t1_first = ColF,
                                        !.t1_date = ColD])
    /\ UNCHANGED <<pc, cfg, env, t2, results, progress, pipeVars, rlVars,
                   callVars, semVars>>

\* lines 940-1000: load_t2
LoadT2 ==
    /\ pc = "gui"
    /\ win' = Revalidated([win.w EXCEPT
                             !.opera_df = Table({ColL, ColF, ColD, ColU}, 10),
                             !.t2_last = ColL, !.t2_first = ColF,
                             !.t2_date = ColD, !.t2_user = ColU])
    /\ UNCHANGED <<pc, cfg, env, t2, results, progress, pipeVars, rlVars,
                   callVars, semVars>>

\* lines 310-321: the user picks another column in a mapping combo box
MappingChanged ==
    /\ pc = "gui"
    /\ win.w.gss_df.loaded
    /\ \E col \in {ColL, ColF} \ {win.w.t1_last} :
         win' = Revalidated([win.w EXCEPT !.t1_last = col])
    /\ UNCHANGED <<pc, cfg, env, t2, results, progress, pipeVars, rlVars,
                   callVars, semVars>>

\* line 323: the user changes the threshold spin box
ThresholdChanged ==
    /\ pc = "gui"
    /\ \E v \in {85, 90} \ {win.threshold} :
         win' = [Revalidated(win.w) EXCEPT !.threshold = v]
    /\ UNCHANGED <<pc, cfg, env, t2, results, progress, pipeVars, rlVars,
                   callVars, semVars>>

\* lines 1298-1305: the settings dialog is closed with OK
SettingsAccepted ==
    /\ pc = "gui"
    /\ win' = Revalidated(win.w)
    /\ UNCHANGED <<pc, cfg, env, t2, results, progress, pipeVars, rlVars,
                   callVars, semVars>>

\* line 305 and lines 1011-1125: the enabled Run button is clicked; after
\* its checks run_match disables the button, constructs a MatchWorker,
\* assigns it to self.match_worker and starts it
ClickRun ==
    /\ pc = "gui"
    /\ win.btn_run
    /\ win.constructed < MaxWorkers
    /\ win' = IF run_match(win.w).worker_started
              THEN [win EXCEPT !.btn_run = FALSE,
                               !.constructed = @ + 1,
                               !.match_worker = win.constructed + 1,
                               !.running = @ \cup {win.constructed + 1}]
              ELSE win
    /\ UNCHANGED <<pc, cfg, env, t2, results, progress, pipeVars, rlVars,
                   callVars, semVars>>

\* threads.py line 24 and main_window.py lines 1264-1267: a worker emits
\* finished_signal and match_finished enables the button
MatchFinished ==
    /\ pc = "gui"
    /\ \E worker \in win.running :
         win' = [win EXCEPT !.running = @ \ {worker}, !.btn_run = TRUE]
    /\ UNCHANGED <<pc, cfg, env, t2, results, progress, pipeVars, rlVars,
                   callVars, semVars>>

NextEvents ==
    \/ LoadT1
    \/ LoadT2
    \/ MappingChanged
    \/ ThresholdChanged
    \/ SettingsAccepted
    \/ ClickRun
    \/ MatchFinished

SpecEvents == InitEvents /\ [][NextEvents]_vars

(***************************************************************************)
(* matcher.py lines 166-196 under gui/threads.py: worker threads, each a   *)
(* MatchWorker in match_tables, calling _semantic_score.  No lock guards   *)
(* the global _semantic_model, and SentenceTransformer(...) loads files:   *)
(* the interpreter can switch threads between the test of line 172 and the *)
(* assignment of line 175.  Of a thread, pos is its position, calls the    *)
(* number of calls it has returned from, model the local of line 186       *)
(* (0: None, n: the n-th object constructed).                              *)
(***************************************************************************)
NumThreads == 2
MaxCalls == 2
Threads == 1..NumThreads

InitSem ==
    /\ pc = "threads"
    /\ cfg = [BaseCfg EXCEPT !.algorithm = "Semantic Matching"]
    /\ env \in {[DefaultEnv EXCEPT !.HAS_SEMANTIC = h, !.model_loads = l] :
                  h \in BOOLEAN, l \in BOOLEAN}
    /\ _semantic_model = 0
    /\ constructions = 0
    /\ th = [t \in Threads |-> [pos |-> "idle", calls |-> 0, model |-> 0]]
    /\ IdleWin
    /\ t2 = <<>>
    /\ results = <<>>
    /\ progress = <<>>
    /\ IdlePipe
    /\ IdleRL
    /\ IdleCall

\* lines 180-186: _semantic_score is entered; without the library it
\* returns the Jaro-Winkler score
SemEnter(t) ==
    /\ pc = "threads"
    /\ th[t].pos = "idle"
    /\ th[t].calls < MaxCalls
    /\ th' = IF env.HAS_SEMANTIC
             THEN [th EXCEPT ![t].pos = "check"]
             ELSE [th EXCEPT ![t].calls = @ + 1]
    /\ UNCHANGED <<pc, cfg, env, win, t2, results, progress, pipeVars, rlVars,
                   callVars, _semantic_model, constructions>>

\* line 172
SemCheck(t) ==
    /\ pc = "threads"
    /\ th[t].pos = "check"
    /\ th' = IF _semantic_model = 0 /\ env.HAS_SEMANTIC
             THEN [th EXCEPT ![t].pos = "construct"]
             ELSE [th EXCEPT ![t].pos = "return"]
    /\ UNCHANGED <<pc, cfg, env, win, t2, results, progress, pipeVars, rlVars,
                   callVars, _semantic_model, constructions>>

\* lines 173-177
SemConstruct(t) ==
    /\ pc = "threads"
    /\ th[t].pos = "construct"
    /\ IF env.model_loads
       THEN /\ constructions' = constructions + 1
            /\ _semantic_model' = constructions + 1
       ELSE UNCHANGED <<_semantic_model, constructions>>
    /\ th' = [th EXCEPT ![t].pos = "return"]
    /\ UNCHANGED <<pc, cfg, env, win, t2, results, progress, pipeVars, rlVars,
                   callVars>>

\* lines 178 and 186-196
SemReturn(t) ==
    /\ pc = "threads"
    /\ th[t].pos = "return"
    /\ th' = [th EXCEPT ![t].pos = "idle", ![t].model = _semantic_model,
                        ![t].calls = @ + 1]
    /\ UNCHANGED <<pc, cfg, env, win, t2, results, progress, pipeVars, rlVars,
                   callVars, _semantic_model, constructions>>

NextSem ==
    \E t \in Threads :
        \/ SemEnter(t)
        \/ SemCheck(t)
        \/ SemConstruct(t)
        \/ SemReturn(t)

SpecSem == InitSem /\ [][NextSem]_vars

(***************************************************************************)
(* Calls of normalize_component on the texts of up to MaxWords words, one  *)
(* space between two words, with compound joining on and off.             *)
(***************************************************************************)
MaxWords == 3
NormWords == { <<"d", "e">>, <<"l", "a">>, <<"a", "l">>, <<"C", "r", "u", "z">> }

InitNorm ==
    /\ pc = "call"
    /\ cfg = BaseCfg
    /\ env = DefaultEnv
    /\ \E words \in SeqsUpTo(NormWords, MaxWords), enable_compound \in BOOLEAN :
         args = [fn |-> "normalize_component", words |-> words,
                 text |-> Join(words), enable_compound |-> enable_compound]
    /\ ret = NoRet
    /\ t2 = <<>>
    /\ results = <<>>
    /\ progress = <<>>
    /\ IdlePipe
    /\ IdleRL
    /\ IdleSem
    /\ IdleWin

\* name_normalizer.py lines 46-70
NormCall ==
    /\ pc = "call"
    /\ args.fn = "normalize_component"
    /\ ret' = [done |-> TRUE,
               val |-> normalize_component(args.text, args.enable_compound)]
    /\ pc' = "returned"
    /\ UNCHANGED <<cfg, env, win, t2, results, progress, pipeVars, rlVars, args,
                   semVars>>

NextNorm == NormCall

SpecNorm == InitNorm /\ [][NextNorm]_vars

(***************************************************************************)
(* Calls of _quick_filter on the NormalizedRow of two names, with          *)
(* pre-normalization, phonetic matching and the safe-missing check on and  *)
(* off.  Without pre-normalization a last name keeps its accents, and      *)
(* soundex_code strips them.                                               *)
(***************************************************************************)
FilterCfgs ==
    { [BaseCfg EXCEPT !.enable_pre_norm = pn, !.enable_phonetic = ph,
                      !.enable_safe_missing = sm] :
      pn \in BOOLEAN, ph \in BOOLEAN, sm \in BOOLEAN }

\* raw (last, first) names: short last names over three letters, a long
\* last name, an accented one, a missing last name, a missing first name
FilterNames ==
    { [last |-> l, first |-> <<"A", "l">>] :
        l \in SeqsUpTo({"l", "r", "e"}, 2) }
    \cup { [last |-> <<"L", "e", "e">>, first |-> <<"A", "l">>],
           [last |-> <<"R", "e", "a">>, first |-> <<"A", "l">>],
           [last |-> <<"L", "e", "a">>, first |-> <<>>],
           [last |-> <<"L", "e", "e", "s", "o", "n", "s">>, first |-> <<"A", "l">>],
           [last |-> <<"L", "e", "e">>, first |-> <<"A", "l", "b", "e", "r", "t">>],
           [last |-> <<"É", "l", "a", "n">>, first |-> <<"A", "l">>],
           [last |-> <<"E", "l", "a", "n">>, first |-> <<"A", "l">>],
           [last |-> <<>>, first |-> <<>>] }

FilterRows == [n \in FilterNames, c \in FilterCfgs |->
                  _precompute_normalized_data(n.last, n.first, c)]

InitFilter ==
    /\ pc = "call"
    /\ cfg \in FilterCfgs
    /\ env = DefaultEnv
    /\ \E n1 \in FilterNames, n2 \in FilterNames :
         args = [fn |-> "_quick_filter",
                 t1_norm |-> FilterRows[n1, cfg], t2_norm |-> FilterRows[n2, cfg]]
    /\ ret = NoRet
    /\ t2 = <<>>
    /\ results = <<>>
    /\ progress = <<>>
    /\ IdlePipe
    /\ IdleRL
    /\ IdleSem
    /\ IdleWin

\* lines 306-351
FilterCall ==
    /\ pc = "call"
    /\ args.fn = "_quick_filter"
    /\ ret' = [done |-> TRUE, val |-> _quick_filter(args.t1_norm, args.t2_norm, cfg)]
    /\ pc' = "returned"
    /\ UNCHANGED <<cfg, env, win, t2, results, progress, pipeVars, rlVars, args,
                   semVars>>

NextFilter == FilterCall

SpecFilter == InitFilter /\ [][NextFilter]_vars

(***************************************************************************)
(* Properties.                                                             *)
(***************************************************************************)
ResultIdx == 1..Len(results)
IsMatch(row) == row.Confidence # "No Match"
\* the positions of the output rows of the primary row idx1
RowsOf(idx1) == {j \in ResultIdx : results[j].i1 = idx1}

\* C1: in single-best mode (show_all_matches false, any algorithm but
\* "Record Linkage") the output holds at most one row per primary index.
C1_SingleBestOneRowPerPrimary ==
    (cfg.algorithm # "Record Linkage" /\ ~cfg.show_all_matches) =>
        \A a \in ResultIdx, b \in ResultIdx :
            results[a].i1 = results[b].i1 => a = b

\* a primary row with two retained matches has been emitted in single-best
\* mode
C1_Witness ==
    /\ ~cfg.show_all_matches
    /\ pc = "row"
    /\ Len(matching_rows) >= 2
    /\ results # <<>>
    /\ results[Len(results)].i1 = i1 - 1
    /\ IsMatch(results[Len(results)])

\* C2: in show-all mode no (primary index, secondary index) pair is
\* emitted in more than one output row, whatever the date tolerance.
C2_ShowAllNoPairTwice ==
    cfg.show_all_matches =>
        \A a \in ResultIdx, b \in ResultIdx :
            (/\ IsMatch(results[a])
             /\ IsMatch(results[b])
             /\ results[a].i1 = results[b].i1
             /\ results[a].i2 = results[b].i2) => a = b

\* show-all mode with a tolerance above 0 has emitted two matches of one
\* primary row, one found at its own date and one at a date offset
C2_Witness ==
    /\ cfg.show_all_matches
    /\ cfg.date_tolerance_days > 0
    /\ \E a \in ResultIdx, b \in ResultIdx :
        /\ IsMatch(results[a])
        /\ IsMatch(results[b])
        /\ results[a].i1 = results[b].i1
        /\ results[a].date_diff = 0
        /\ results[b].date_diff > 0

\* C3: every candidate of the candidate loop has a parsed date no more than
\* date_tolerance_days away from the (parsed) date of the primary row, so
\* has every candidate that was scored, and every emitted match joins two
\* rows with parsed dates within the tolerance.
C3_CandidatesWithinTolerance ==
    /\ pc = "score" =>
        /\ r1.date # NoneInt
        /\ \A j \in 1..Len(candidates) :
            /\ candidates[j] \in 0..(Len(t2) - 1)
            /\ Row2(candidates[j]).date # NoneInt
            /\ Abs(r1.date - Row2(candidates[j]).date) <= cfg.date_tolerance_days
    /\ last_scored.passed =>
        /\ Row2(last_scored.i2).date # NoneInt
        /\ 0 <= last_scored.date_diff
        /\ last_scored.date_diff <= cfg.date_tolerance_days
    /\ \A a \in ResultIdx :
        IsMatch(results[a]) =>
            /\ results[a].T1_date # NoneInt
            /\ results[a].T2_date # NoneInt
            /\ results[a].date_diff = Abs(results[a].T1_date - results[a].T2_date)
            /\ results[a].date_diff <= cfg.date_tolerance_days

\* a candidate has been scored while the secondary table holds a row
\* without a date or with a date outside the tolerance window
C3_Witness ==
    /\ pc = "score"
    /\ last_scored.passed
    /\ \E j \in 1..Len(t2) :
        \/ t2[j].date = NoneInt
        \/ Abs(r1.date - t2[j].date) > cfg.date_tolerance_days

\* C4: in show-all mode, for a non-empty primary table and any secondary
\* table, a primary row without a date, without a candidate or without a
\* retained candidate gives exactly one output row, a "No Match" row with
\* empty secondary fields, and a primary row with a retained candidate
\* gives matched rows only; at the end every primary row has its rows.
C4_NoMatchRowPerUnmatchedPrimary ==
    cfg.show_all_matches =>
        /\ (pc = "row" /\ i1 > 0) =>
            IF matching_rows = <<>>
            THEN /\ Cardinality(RowsOf(i1 - 1)) = 1
                 /\ \A j \in RowsOf(i1 - 1) :
                     /\ results[j].Confidence = "No Match"
                     /\ results[j].i2 = NoneInt
                     /\ results[j].T2_last = NoneCell
                     /\ results[j].T2_first = NoneCell
                     /\ results[j].T2_date = NoneInt
            ELSE /\ RowsOf(i1 - 1) # {}
                 /\ \A j \in RowsOf(i1 - 1) : IsMatch(results[j])
        /\ (pc = "done" /\ total > 0) =>
            \A idx1 \in 0..(total - 1) : RowsOf(idx1) # {}

\* C5: a "No Match" row has no scores and no ITR bucket, also when the
\* intent-score column of t1 is configured and holds a number.
C5_NoMatchRowsEmpty ==
    \A a \in ResultIdx :
        results[a].Confidence = "No Match" =>
            /\ results[a].LastName_Score = NoneInt
            /\ results[a].FirstName_Score = NoneInt
            /\ results[a].Combined_Score = NoneInt
            /\ results[a].ITR_Bucket = NoneInt

\* C6: _detailed_scoring returns three integers in 0..100 when the name
\* scores are in 0..100, threshold is in 0..100 and date_diff >= 0, for
\* every combination of safe-missing, date bonus and phonetic bonus and
\* every weighting of the names.
C6_DetailedScoresInRange ==
    (pc = "returned" /\ args.fn = "_detailed_scoring") =>
        /\ Len(ret.val) = 3
        /\ \A j \in 1..3 : ret.val[j] \in 0..100

\* a call on an exact date with the date bonus on whose name score and
\* combined score both met the cap of 100
C6_Witness ==
    /\ pc = "returned"
    /\ args.fn = "_detailed_scoring"
    /\ cfg.enable_date_bonus
    /\ args.date_diff = 0
    /\ args.fz_last = 97
    /\ args.fz_first = 97
    /\ ret.val = <<100, 100, 100>>

\* C7: every matched row of match_with_recordlinkage has Combined_Score in
\* 0..100, each of the three features being 0 or 1.
C7_RLCombinedInRange ==
    \A a \in ResultIdx :
        IsMatch(results[a]) => results[a].Combined_Score \in 0..100

\* C8: for each algorithm of _fuzzy_score, with enhanced fuzzy on or off
\* and the optional libraries present or absent, two empty strings score
\* 100, an empty and a non-empty string score 0, and a string scores 100
\* with itself.
C8_FuzzyScoreIdentities ==
    (pc = "returned" /\ args.fn = "_fuzzy_score") =>
        /\ (args.a = <<>> /\ args.b = <<>>) => ret.val = <<100>>
        /\ ((args.a = <<>>) # (args.b = <<>>)) => ret.val = <<0>>
        /\ args.a = args.b => ret.val = <<100>>

\* C9: with multi-pass on, a scored candidate is High iff date_diff = 0
\* and combined >= threshold, else Medium iff date_diff <= tolerance and
\* combined >= threshold - 10, else Low iff date_diff <= tolerance and
\* combined >= threshold - 15, else discarded; in the candidate loop a
\* retained candidate is the last of matching_rows and a discarded one is
\* not in it; every emitted
\* match has combined >= max(0, threshold - 15), a High one has date_diff
\* 0, none is "Very Low".
C9_MultiPassClassification ==
    cfg.enable_multi_pass =>
        /\ last_scored.passed =>
            LET c == last_scored.combined
                dd == last_scored.date_diff
                high == dd = 0 /\ c >= cfg.threshold
                medium == ~high /\ dd <= cfg.date_tolerance_days
                          /\ c >= cfg.threshold - 10
                low == ~high /\ ~medium /\ dd <= cfg.date_tolerance_days
                       /\ c >= cfg.threshold - 15
            IN  /\ last_scored.conf = "High" <=> high
                /\ last_scored.conf = "Medium" <=> medium
                /\ last_scored.conf = "Low" <=> low
                /\ last_scored.conf = "skip" <=> ~(high \/ medium \/ low)
                /\ pc = "score" =>
                    IF last_scored.conf = "skip"
                    THEN \A j \in 1..Len(matching_rows) :
                             matching_rows[j].i2 # last_scored.i2
                    ELSE /\ matching_rows # <<>>
                         /\ matching_rows[Len(matching_rows)].i2 = last_scored.i2
                         /\ matching_rows[Len(matching_rows)].conf = last_scored.conf
                         /\ matching_rows[Len(matching_rows)].combined = c
        /\ \A a \in ResultIdx :
            IsMatch(results[a]) =>
                /\ results[a].Combined_Score >= Max(0, cfg.threshold - 15)
                /\ results[a].Confidence \in {"High", "Medium", "Low"}
                /\ results[a].Confidence = "High" => results[a].date_diff = 0

\* a multi-pass run has emitted a Medium and a Low match and has just
\* discarded a candidate
C9_Witness ==
    /\ cfg.enable_multi_pass
    /\ last_scored.passed
    /\ last_scored.conf = "skip"
    /\ \E a \in ResultIdx : results[a].Confidence = "Medium"
    /\ \E a \in ResultIdx : results[a].Confidence = "Low"

\* C10: with multi-pass off, a scored candidate is retained iff combined
\* >= the effective threshold, which is the threshold on an exact date
\* and max(0, threshold - 8) on a date that differs within the tolerance;
\* a retained candidate carries the fixed band of its combined score.
C10_SinglePassEffectiveThreshold ==
    (~cfg.enable_multi_pass /\ last_scored.passed) =>
        LET c == last_scored.combined
            dd == last_scored.date_diff
            effective_threshold ==
                IF dd # 0 /\ dd <= cfg.date_tolerance_days
                THEN Max(0, cfg.threshold - 8)
                ELSE cfg.threshold
        IN  /\ last_scored.conf # "skip" <=> c >= effective_threshold
            /\ last_scored.conf # "skip" =>
                last_scored.conf = (IF c >= 90 THEN "High"
                                    ELSE IF c >= 80 THEN "Medium"
                                    ELSE IF c >= 70 THEN "Low"
                                    ELSE "Very Low")

\* C11: in single-best mode, a primary row with a retained candidate emits
\* one that no other retained candidate of it precedes in the order
\* (date_diff ascending, combined descending); a primary row that reached
\* the candidate loop and retained nothing emits no row.
C11_SingleBestIsMinimal ==
    (~cfg.show_all_matches /\ pc = "row" /\ i1 > 0) =>
        IF matching_rows = <<>>
        THEN RowsOf(i1 - 1) = {}
        ELSE /\ results # <<>>
             /\ results[Len(results)].i1 = i1 - 1
             /\ \E j \in 1..Len(matching_rows) :
                 /\ matching_rows[j].i2 = results[Len(results)].i2
                 /\ matching_rows[j].combined = results[Len(results)].Combined_Score
                 /\ matching_rows[j].date_diff = results[Len(results)].date_diff
             /\ \A j \in 1..Len(matching_rows) :
                 /\ matching_rows[j].date_diff >= results[Len(results)].date_diff
                 /\ matching_rows[j].date_diff = results[Len(results)].date_diff =>
                        matching_rows[j].combined <= results[Len(results)].Combined_Score

\* single-best mode has emitted the exact-date candidate of a primary row
\* that also retained a candidate with a larger combined score on another
\* date
C11_Witness ==
    /\ ~cfg.show_all_matches
    /\ pc = "row"
    /\ i1 > 0
    /\ results # <<>>
    /\ results[Len(results)].i1 = i1 - 1
    /\ \E j \in 1..Len(matching_rows) :
        /\ matching_rows[j].date_diff > results[Len(results)].date_diff
        /\ matching_rows[j].combined > results[Len(results)].Combined_Score

\* C12: a run of match_tables with a progress callback over a primary
\* table of at least one row and a non-empty secondary table eventually
\* has handed 100 to the callback, for the final primary row, when it
\* returns.
C12_FinalRowReported ==
    (pc = "done" /\ total >= 1 /\ Len(t2) >= 1) =>
        (progress # <<>> /\ progress[Len(progress)] = 100)

\* C13: soundex_code returns a string of exactly 4 characters for every
\* non-empty input, also one of only whitespace or punctuation or one whose
\* first character is no letter, and the empty string only for the empty
\* input.
C13_SoundexFourChars ==
    (ret.done /\ args.fn = "soundex_code") =>
        IF args.name = <<>> THEN ret.val = <<>> ELSE Len(ret.val) = 4

\* C14: categorize_itr returns 0, 8, 10 or None: 0 for a number v <= 7,
\* 8 for v = 8, 10 for v >= 9, and None for a missing, blank or non-numeric
\* cell.
C14_ItrBuckets ==
    (ret.done /\ args.fn = "categorize_itr") =>
        LET value == args.value
            r == ret.val[1]
        IN  /\ r \in {0, 8, 10, NoneInt}
            /\ value.kind = "num" =>
                 /\ value.half <= 2 * 7 => r = 0
                 /\ value.half = 2 * 8 => r = 8
                 /\ value.half >= 2 * 9 => r = 10
            /\ value.kind \in {"none", "blank", "text"} => r = NoneInt

\* categorize_itr has returned 0 for the cell 7
C14_Witness ==
    /\ ret.done
    /\ args.fn = "categorize_itr"
    /\ args.value = [kind |-> "num", half |-> 2 * 7]
    /\ ret.val = <<0>>

\* a calendar date
ValidDate(year, month, day) ==
    /\ year \in 1..9999
    /\ month \in 1..12
    /\ day >= 1
    /\ day <= (IF month = 2
               THEN (IF year % 4 = 0 /\ (year % 100 # 0 \/ year % 400 = 0)
                     THEN 29 ELSE 28)
               ELSE IF month \in {4, 6, 9, 11} THEN 30 ELSE 31)
\* no strategy parses the text: every library call fails and the groups
\* of the regular expression that matches, if one does, are no date
Unparseable(value) ==
    /\ value.kind = "str"
    /\ value.lib = NoLib
    /\ value.m.pattern = 1 =>
         /\ ~ValidDate(value.m.g3, value.m.g2, value.m.g1)
         /\ ~ValidDate(value.m.g3, value.m.g1, value.m.g2)
    /\ value.m.pattern = 2 =>
         /\ ~ValidDate(TwoDigitYear(value.m.g3), value.m.g2, value.m.g1)
         /\ ~ValidDate(TwoDigitYear(value.m.g3), value.m.g1, value.m.g2)
    /\ value.m.pattern \in {3, 4} =>
         ~ValidDate(value.m.g1, value.m.g2, value.m.g3)

\* C15: parse_date_safe raises for no input; None, a NaN, a null-sentinel
\* text ("nan", "none", "null", "" in any letter case, after trimming) and
\* a text no strategy parses yield None; a failure inside a strategy never
\* leaves the function.
C15_ParseDateNeverRaises ==
    (ret.done /\ args.fn = "parse_date_safe") =>
        /\ ret.val.exc = "none"
        /\ args.value.kind \in {"none", "nan"} => ret.val.val = <<>>
        /\ (/\ args.value.kind = "str"
            /\ MapSeq(Lower, Strip(args.value.text)) \in NullSentinels)
              => ret.val.val = <<>>
        /\ Unparseable(args.value) => ret.val.val = <<>>

\* parse_date_safe has returned None for a text every library call failed
\* on and the first regular expression reads as the 31st of February
C15_Witness ==
    /\ ret.done
    /\ args.fn = "parse_date_safe"
    /\ args.value.kind = "str"
    /\ args.value.lib = NoLib
    /\ args.value.m = [pattern |-> 1, g1 |-> 31, g2 |-> 2, g3 |-> 2024]
    /\ ret.val = Nothing

\* C16: match_with_recordlinkage returns an empty table, without a row
\* built before the failure, when the recordlinkage library is missing and
\* when a statement of it fails: a missing column, the indexing or
\* comparing, the building of a row, or the progress callback.
C16_RLFailureGivesEmptyTable ==
    /\ pc = "failed" => results = <<>>
    /\ (pc = "done" /\ cfg.algorithm = "Record Linkage"
          /\ ~env.HAS_RECORDLINKAGE) => results = <<>>

\* the progress callback of line 165 has raised after the rows of the
\* matches were built, and the table returned is empty
C16_Witness ==
    /\ pc = "failed"
    /\ RLMatches(rl_features) # <<>>
    /\ progress # <<>>
    /\ progress[Len(progress)] = 100
    /\ results = <<>>

\* C17: with show_all_matches false, the table match_with_recordlinkage
\* returns holds at most one row per primary index, also when several
\* secondary rows share the date of a primary row.
C17_RLSingleBestOneRowPerPrimary ==
    (cfg.algorithm = "Record Linkage" /\ ~cfg.show_all_matches /\ pc = "done") =>
        \A a \in ResultIdx, b \in ResultIdx :
            results[a].i1 = results[b].i1 => a = b

\* the selections of the window are not fit for a match: a table is not
\* loaded, a required role is unselected or blank, or a selected column is
\* in no loaded table
RolesOf(w) == {w.t1_last, w.t1_first, w.t1_date,
               w.t2_last, w.t2_first, w.t2_date, w.t2_user}
BadSelection(w) ==
    \/ ~w.gss_df.loaded
    \/ ~w.opera_df.loaded
    \/ \E x \in RolesOf(w) : x \in {<<>>, <<" ">>}
    \/ \E x \in {w.t1_last, w.t1_first, w.t1_date} : x \notin w.gss_df.columns
    \/ \E x \in {w.t2_last, w.t2_first, w.t2_date, w.t2_user} :
          x \notin w.opera_df.columns

\* C18: when a table is not loaded, a required column role is unselected
\* or blank, or a selected column is absent from its table, run_match shows
\* a warning and returns: no MatchWorker is constructed or started and
\* match_tables is not called.
C18_RunMatchRejectsBadSelection ==
    (ret.done /\ args.fn = "run_match" /\ BadSelection(args.w)) =>
        /\ ret.val.warning # ""
        /\ ~ret.val.worker_constructed
        /\ ~ret.val.worker_started
        /\ ~ret.val.match_tables_called

\* run_match has refused a window whose tables are loaded and whose roles
\* are all selected, the user-id role naming a column the secondary table
\* does not hold
C18_Witness ==
    /\ ret.done
    /\ args.fn = "run_match"
    /\ args.w.gss_df.loaded
    /\ args.w.opera_df.loaded
    /\ \A x \in RolesOf(args.w) : x \notin {<<>>, <<" ">>}
    /\ args.w.t1_last = ColL
    /\ args.w.t2_user = ColGone
    /\ ret.val.warning = "Mapping Error"
    /\ ~ret.val.worker_started

\* C19: over the calls of _semantic_score of a process, also those of two
\* worker threads interleaved, the semantic model is constructed at most
\* once, and the calls that got a model got the same object.
C19_ModelConstructedOnce ==
    /\ constructions <= 1
    /\ \A t \in DOMAIN th, u \in DOMAIN th :
         (th[t].model # 0 /\ th[u].model # 0) => th[t].model = th[u].model

\* the words of a name in lower case
LowerWords(words) == [j \in 1..Len(words) |-> MapSeq(Lower, words[j])]
\* the grouping of the words of a name: a preposition that is not the last
\* word is one token with the word after it, from the left, a merged word
\* not being looked at again
RECURSIVE Grouped(_)
Grouped(words) ==
    IF words = <<>> THEN <<>>
    ELSE IF Head(words) \in COMPOUND_SURNAME_PREFIXES /\ Len(words) >= 2
         THEN <<words[1] \o <<" ">> \o words[2]>> \o Grouped(Tail(Tail(words)))
         ELSE <<Head(words)>> \o Grouped(Tail(words))

\* C20: with compound joining on, the tokens of the value
\* normalize_component returns are the grouping of the words of the name: a
\* preposition that is not last merged with the word after it, so that
\* "de la Cruz" comes back as the two tokens "de la" and "cruz".
C20_CompoundGroupingReturned ==
    (ret.done /\ args.fn = "normalize_component" /\ args.enable_compound) =>
        Split(ret.val) = Grouped(LowerWords(args.words))

\* the length-difference ratio |la - lb| / max(la, lb, 1) exceeds 0.5
RatioExceeds(la, lb) ==
    2 * (IF la >= lb THEN la - lb ELSE lb - la)
        > (IF la >= lb THEN (IF la >= 1 THEN la ELSE 1)
           ELSE (IF lb >= 1 THEN lb ELSE 1))

\* C21: _quick_filter rejects every pair whose last-name or first-name
\* length-difference ratio exceeds 0.5, for all lengths from 0 on, a field
\* empty on exactly one side (ratio 1) included.
C21_FilterRejectsLengthRatio ==
    (ret.done /\ args.fn = "_quick_filter"
       /\ (\/ RatioExceeds(args.t1_norm.last_len, args.t2_norm.last_len)
           \/ RatioExceeds(args.t1_norm.first_len, args.t2_norm.first_len)))
      => ret.val = FALSE

\* the checks of _quick_filter before the first-character check let the
\* pair through
PassesEarlierChecks(a, b, c) ==
    /\ a.last_norm # <<>> \/ a.first_norm # <<>>
    /\ b.last_norm # <<>> \/ b.first_norm # <<>>
    /\ c.enable_safe_missing => (a.last_norm # <<>> /\ b.last_norm # <<>>)
    /\ (a.last_norm # <<>> /\ b.last_norm # <<>>)
         => ~RatioExceeds(a.last_len, b.last_len)
    /\ (a.first_norm # <<>> /\ b.first_norm # <<>>)
         => ~RatioExceeds(a.first_len, b.first_len)
\* phonetic matching is on and the two last-name codes are non-empty and
\* equal
PhoneticException(a, b, c) ==
    /\ c.enable_phonetic
    /\ a.last_soundex # <<>>
    /\ b.last_soundex # <<>>
    /\ a.last_soundex = b.last_soundex

\* C22: when both last names are non-empty and their first characters
\* differ, _quick_filter rejects the pair unless phonetic matching is on and
\* both last-name codes are non-empty and equal, and then the
\* first-character check lets it through; when the first characters are
\* equal the check never rejects.
C22_FirstCharCheck ==
    (ret.done /\ args.fn = "_quick_filter"
       /\ args.t1_norm.last_norm # <<>> /\ args.t2_norm.last_norm # <<>>) =>
        IF args.t1_norm.last_first_char # args.t2_norm.last_first_char
        THEN IF PhoneticException(args.t1_norm, args.t2_norm, cfg)
             THEN ret.val = PassesEarlierChecks(args.t1_norm, args.t2_norm, cfg)
             ELSE ret.val = FALSE
        ELSE ret.val = PassesEarlierChecks(args.t1_norm, args.t2_norm, cfg)

\* _quick_filter has let through two last names whose first characters
\* differ and whose phonetic codes are equal
C22_Witness ==
    /\ ret.done
    /\ args.fn = "_quick_filter"
    /\ args.t1_norm.last_norm # <<>>
    /\ args.t2_norm.last_norm # <<>>
    /\ args.t1_norm.last_first_char # args.t2_norm.last_first_char
    /\ PhoneticException(args.t1_norm, args.t2_norm, cfg)
    /\ ret.val = TRUE

\* a name over the lowercase ASCII letters, its words one space apart
LowerAscii(name) == \A j \in 1..Len(name) : name[j] \in Letters \cup {" "}

\* C30: with pre-normalization and phonetic matching on, two non-empty
\* last names over lowercase ASCII letters whose first characters differ
\* have different phonetic codes, and _quick_filter rejects the pair.
C30_DifferentInitialsRejected ==
    (ret.done /\ args.fn = "_quick_filter"
       /\ cfg.enable_pre_norm /\ cfg.enable_phonetic
       /\ args.t1_norm.last_norm # <<>> /\ args.t2_norm.last_norm # <<>>
       /\ LowerAscii(args.t1_norm.last_norm) /\ LowerAscii(args.t2_norm.last_norm)
       /\ args.t1_norm.last_first_char # args.t2_norm.last_first_char) =>
        /\ args.t1_norm.last_soundex # args.t2_norm.last_soundex
        /\ ret.val = FALSE

\* _quick_filter, phonetic matching on, has rejected two pre-normalized
\* last names of one length that differ in their first letter only
C30_Witness ==
    /\ ret.done
    /\ args.fn = "_quick_filter"
    /\ cfg.enable_pre_norm
    /\ cfg.enable_phonetic
    /\ args.t1_norm.last_norm = <<"l", "e">>
    /\ args.t2_norm.last_norm = <<"r", "e">>
    /\ args.t1_norm.last_soundex = <<"L", "0", "0", "0">>
    /\ args.t2_norm.last_soundex = <<"R", "0", "0", "0">>
    /\ ret.val = FALSE

\* C23: _detailed_scoring adds the phonetic boost of 15, capped at 100,
\* exactly when phonetic matching is on, the combined score after the date
\* bonus is below the threshold and both last-name codes are non-empty and
\* equal: the boost comes after the date bonus and never on a score at or
\* above the threshold.
C23_PhoneticBoostAfterDateBonus ==
    (ret.done /\ args.fn = "_detailed_scoring") =>
        /\ ret.steps.dated =
             (IF ~cfg.enable_date_bonus THEN ret.steps.weighted
              ELSE IF args.date_diff = 0
                   THEN (IF ret.steps.weighted + 10 > 100 THEN 100
                         ELSE ret.steps.weighted + 10)
              ELSE IF args.date_diff <= cfg.date_tolerance_days
                   THEN (IF ret.steps.weighted + 5 > 100 THEN 100
                         ELSE ret.steps.weighted + 5)
              ELSE ret.steps.weighted)
        /\ ret.val[3] =
             (IF cfg.enable_phonetic /\ ret.steps.dated < cfg.threshold
                 /\ args.t1_norm.last_soundex # <<>>
                 /\ args.t1_norm.last_soundex = args.t2_norm.last_soundex
              THEN (IF ret.steps.dated + 15 > 100 THEN 100
                    ELSE ret.steps.dated + 15)
              ELSE ret.steps.dated)

\* a call, phonetic matching on and the codes equal, whose weighted score
\* was below the threshold and whose date bonus lifted it to the
\* threshold: the phonetic boost was not given
C23_Witness ==
    /\ ret.done
    /\ args.fn = "_detailed_scoring"
    /\ cfg.enable_phonetic
    /\ args.t1_norm.last_soundex # <<>>
    /\ args.t1_norm.last_soundex = args.t2_norm.last_soundex
    /\ ret.steps.weighted < cfg.threshold
    /\ ret.steps.dated >= cfg.threshold
    /\ ret.val[3] = ret.steps.dated

\* C24: in _detailed_scoring the last-name and the first-name score before
\* the date-proximity boost are the scores of the scoring engine for the two
\* normalized strings, the first-name score being 100 when both first names
\* are empty.
C24_NameScoresAreEngineScores ==
    (ret.done /\ args.fn = "_detailed_scoring") =>
        /\ ret.steps.last0 = args.fz_last
        /\ IF args.t1_norm.first_norm = <<>> /\ args.t2_norm.first_norm = <<>>
           THEN ret.steps.first0 = 100
           ELSE ret.steps.first0 = args.fz_first

WithDoubleSurname(b) == [BaseCfg EXCEPT !.enable_double_surname = b]

\* C26: normalize_component returns the same string with enable_compound
\* true and false, for every input, so that the compound-surname toggle
\* changes neither the normalized last name nor its length, first
\* character or phonetic code.
C26_CompoundToggleNoEffect ==
    (ret.done /\ args.fn = "normalize_component") =>
        /\ ret.val = normalize_component(args.text, ~args.enable_compound)
        /\ _precompute_normalized_data(args.text, <<>>,
                                       WithDoubleSurname(args.enable_compound))
             = _precompute_normalized_data(args.text, <<>>,
                                    WithDoubleSurname(~args.enable_compound))
        /\ _precompute_normalized_data(args.text, <<>>,
                      WithDoubleSurname(args.enable_compound)).last_norm = ret.val

\* a call with enable_compound on whose text has a surname prefix followed
\* by another word, so that the loop merged the two
C26_Witness ==
    /\ ret.done
    /\ args.fn = "normalize_component"
    /\ args.enable_compound
    /\ \E i \in 1..(Len(Split(ret.val)) - 1) :
          Split(ret.val)[i] \in COMPOUND_SURNAME_PREFIXES
    /\ Len(MergeCompound(Split(ret.val), 1)) < Len(Split(ret.val))

\* the row of results for the pair p
EmittedFor(p) ==
    \E j \in 1..Len(results) :
        /\ results[j].i1 = p.idx1
        /\ results[j].i2 = p.idx2
        /\ results[j].Combined_Score >= 100
        /\ results[j].Confidence = "High"

\* C27: match_with_recordlinkage blocks the candidate pairs on equal parsed
\* dates, so the exact-date feature of every pair is 1 and its sum at least
\* 1: every pair of rows with the same date is emitted as a match, whatever
\* the threshold and the name features, and its row is labelled "High".
C27_SameDatePairsAlwaysMatch ==
    /\ (cfg.algorithm = "Record Linkage" /\ pc \in {"rows", "unmatched", "done"}) =>
          \A j \in 1..Len(rl_features) :
              /\ rl_features[j].date_exact = 1
              /\ 100 * feature_sum(rl_features[j]) >= cfg.threshold
    /\ (cfg.algorithm = "Record Linkage" /\ pc \in {"unmatched", "done"}
           /\ env.HAS_RECORDLINKAGE) =>
          \A j \in 1..Len(candidate_pairs(0, 0)) :
              EmittedFor(candidate_pairs(0, 0)[j])

\* a finished run at threshold 100 that emitted a pair whose two name
\* features are 0
C27_Witness ==
    /\ cfg.algorithm = "Record Linkage"
    /\ pc = "done"
    /\ cfg.threshold = 100
    /\ \E j \in 1..Len(results) :
          /\ results[j].i2 # NoneInt
          /\ results[j].LastName_Score = 0
          /\ results[j].FirstName_Score = 0
          /\ results[j].Confidence = "High"

\* C25: every text date with a two-digit year YY in the numeric day-month
\* form with slashes, dashes or dots that parse_date_safe parses gets the
\* year 2000 + YY when YY is at most 30 and 1900 + YY when YY is 31 or
\* more, whichever strategy produced the date.
C25_TwoDigitYearPivot ==
    (ret.done /\ args.fn = "parse_date_safe" /\ "short" \in DOMAIN args
       /\ ret.val.exc = "none" /\ ret.val.val # <<>>) =>
        ret.val.val[1] = (IF args.short.yy <= 30 THEN 2000 + args.short.yy
                          ELSE 1900 + args.short.yy)

\* the same for the texts pandas does not parse: the date comes from the
\* formats of _try_common_formats or from the regular expressions
C25_PivotWithoutPandas ==
    (ret.done /\ args.fn = "parse_date_safe" /\ "short" \in DOMAIN args
       /\ args.lib.s1 = "raise" /\ args.lib.s2 = "raise" /\ args.lib.s4 = "raise"
       /\ ret.val.exc = "none" /\ ret.val.val # <<>>) =>
        ret.val.val[1] = (IF args.short.yy <= 30 THEN 2000 + args.short.yy
                          ELSE 1900 + args.short.yy)

\* C28: at most one MatchWorker runs at any time: from the start of a
\* worker in run_match until match_finished the Run button stays disabled
\* under every interleaving of the user's events, so that no second worker
\* starts and self.match_worker is not overwritten while its thread runs.
C28_OneWorkerAtATime ==
    (pc = "gui") =>
        /\ Cardinality(win.running) <= 1
        /\ win.running # {} => ~win.btn_run
        /\ win.running # {} => win.match_worker \in win.running

====
